---- MODULE Spec2Model ----
(***************************************************************************)
(* Multi-site WordPress MCP server (src/main.py).                          *)
(*                                                                         *)
(* A Python str is a sequence of one-character strings, so that the        *)
(* string operations of the source (startswith, in, replace, lower, upper, *)
(* rstrip, join, base64) are computed character by character.  A Python    *)
(* value that may be None is a record tagged with its type.                *)
(***************************************************************************)
EXTENDS Integers, Sequences, FiniteSets, TLC

VARIABLES
    env,        \* os.environ: a function from key to value
    sites,      \* the registry built by the last load_wordpress_sites()
    call,       \* the call in progress or last made, with its arguments
    outcome,    \* how that call ended: pending, return or raise
    wire,       \* the HTTP requests the call has issued, in order
    replies,    \* the HTTP responses the call has received, in order
    backend,    \* what the WordPress backend stores
    prev        \* the call made before this one, with its outcome

vars == <<env, sites, call, outcome, wire, replies, backend, prev>>

\* ------------------------------------------------------------------------
\* Python values

PyNone == [t |-> "None"]
PyStr(s) == [t |-> "str", v |-> s]
PyInt(n) == [t |-> "int", v |-> n]
PyDict(d) == [t |-> "dict", v |-> d]
PyList(l) == [t |-> "list", v |-> l]
PyBool(b) == [t |-> "bool", v |-> b]

\* bool(x): None, False, 0, the empty str, the empty list and the empty dict
\* are falsy
Truthy(x) ==
    CASE x.t = "None" -> FALSE
      [] x.t = "str" -> Len(x.v) > 0
      [] x.t = "int" -> x.v # 0
      [] x.t = "dict" -> DOMAIN x.v # {}
      [] x.t = "list" -> Len(x.v) > 0
      [] x.t = "bool" -> x.v

\* a or b
PyOr(a, b) == IF Truthy(a) THEN a ELSE b

\* ------------------------------------------------------------------------
\* str methods

UpperCase == <<"A", "B", "C", "D", "E", "F", "G", "H", "I", "J", "K", "L", "M",
               "N", "O", "P", "Q", "R", "S", "T", "U", "V", "W", "X", "Y", "Z">>
LowerCase == <<"a", "b", "c", "d", "e", "f", "g", "h", "i", "j", "k", "l", "m",
               "n", "o", "p", "q", "r", "s", "t", "u", "v", "w", "x", "y", "z">>

\* position of character c in table tbl, 0 when absent
IndexOf(c, tbl) ==
    IF \E i \in 1..Len(tbl) : tbl[i] = c
    THEN CHOOSE i \in 1..Len(tbl) : tbl[i] = c
    ELSE 0

RECURSIVE lower(_)
lower(s) ==
    IF s = <<>> THEN <<>>
    ELSE LET i == IndexOf(Head(s), UpperCase)
         IN  <<IF i > 0 THEN LowerCase[i] ELSE Head(s)>> \o lower(Tail(s))

RECURSIVE upper(_)
upper(s) ==
    IF s = <<>> THEN <<>>
    ELSE LET i == IndexOf(Head(s), LowerCase)
         IN  <<IF i > 0 THEN UpperCase[i] ELSE Head(s)>> \o upper(Tail(s))

startswith(s, p) == Len(s) >= Len(p) /\ SubSeq(s, 1, Len(p)) = p

\* p in s
contains(s, p) ==
    \E i \in 1..(Len(s) - Len(p) + 1) : SubSeq(s, i, i + Len(p) - 1) = p

\* s.replace(old, new), old non-empty: leftmost occurrences, not overlapping
RECURSIVE replace(_, _, _)
replace(s, old, new) ==
    IF Len(s) < Len(old) THEN s
    ELSE IF startswith(s, old)
         THEN new \o replace(SubSeq(s, Len(old) + 1, Len(s)), old, new)
         ELSE <<Head(s)>> \o replace(Tail(s), old, new)

\* s.rstrip(ch): every trailing ch is removed
RECURSIVE rstrip(_, _)
rstrip(s, ch) ==
    IF Len(s) > 0 /\ s[Len(s)] = ch
    THEN rstrip(SubSeq(s, 1, Len(s) - 1), ch)
    ELSE s

\* sep.join(parts)
RECURSIVE join(_, _)
join(sep, parts) ==
    IF parts = <<>> THEN <<>>
    ELSE IF Len(parts) = 1 THEN parts[1]
    ELSE parts[1] \o sep \o join(sep, Tail(parts))

\* ------------------------------------------------------------------------
\* Text of the source

SITE_ == <<"S", "I", "T", "E", "_">>
_URL == <<"_", "U", "R", "L">>
_USER == <<"_", "U", "S", "E", "R">>
_APP_PASSWORD == <<"_", "A", "P", "P", "_", "P", "A", "S", "S", "W", "O", "R", "D">>

NoSitesMessage ==
    <<"N", "o", " ", "W", "o", "r", "d", "P", "r", "e", "s", "s", " ", "s", "i",
      "t", "e", "s", " ", "c", "o", "n", "f", "i", "g", "u", "r", "e", "d", ".",
      " ", "P", "l", "e", "a", "s", "e", " ", "s", "e", "t", " ", "e", "n", "v",
      "i", "r", "o", "n", "m", "e", "n", "t", " ", "v", "a", "r", "i", "a", "b",
      "l", "e", "s", ":", "\n",
      "S", "I", "T", "E", "_", "<", "N", "A", "M", "E", ">", "_", "U", "R", "L",
      ",", " ",
      "S", "I", "T", "E", "_", "<", "N", "A", "M", "E", ">", "_", "U", "S", "E",
      "R", ",", " ",
      "S", "I", "T", "E", "_", "<", "N", "A", "M", "E", ">", "_", "A", "P", "P",
      "_", "P", "A", "S", "S", "W", "O", "R", "D">>

NotFoundHead == <<"S", "i", "t", "e", " ", "'">>
NotFoundMid ==
    <<"'", " ", "n", "o", "t", " ", "f", "o", "u", "n", "d", ".", " ", "A", "v",
      "a", "i", "l", "a", "b", "l", "e", " ", "s", "i", "t", "e", "s", ":", " ">>
CommaSpace == <<",", " ">>

\* ------------------------------------------------------------------------
\* Site registry

WordPressSite(name, url, username, app_password) ==
    [name |-> name, url |-> url, username |-> username,
     app_password |-> app_password]

\* env_vars.get(key)
EnvGet(e, key) == IF key \in DOMAIN e THEN PyStr(e[key]) ELSE PyNone

\* the set site_names collected by the first loop
site_names(e) ==
    { replace(replace(key, SITE_, <<>>), _URL, <<>>) :
        key \in { k \in DOMAIN e : startswith(k, SITE_) /\ contains(k, _URL) } }

\* a dict is kept as the sequence of its items in insertion order;
\* d[key] = value replaces the value in place, or appends a new item
HasKey(d, key) == \E i \in 1..Len(d) : d[i].key = key
DictSet(d, key, value) ==
    IF HasKey(d, key)
    THEN [i \in 1..Len(d) |->
             IF d[i].key = key THEN [key |-> key, value |-> value] ELSE d[i]]
    ELSE Append(d, [key |-> key, value |-> value])
DictGet(d, key) == d[CHOOSE i \in 1..Len(d) : d[i].key = key].value
DictKeys(d) == [i \in 1..Len(d) |-> d[i].key]

\* the orders in which a set may be iterated
Orders(S) ==
    { o \in [1..Cardinality(S) -> S] :
        \A i, j \in 1..Cardinality(S) : i # j => o[i] # o[j] }

\* the second loop, over site_names in iteration order `order`
RECURSIVE LoadLoop(_, _, _)
LoadLoop(e, order, d) ==
    IF order = <<>> THEN d
    ELSE LET name == Head(order)
             url == EnvGet(e, SITE_ \o name \o _URL)
             username == EnvGet(e, SITE_ \o name \o _USER)
             app_password == EnvGet(e, SITE_ \o name \o _APP_PASSWORD)
         IN  LoadLoop(e, Tail(order),
                 IF Truthy(url) /\ Truthy(username) /\ Truthy(app_password)
                 THEN DictSet(d, lower(name),
                          WordPressSite(lower(name), url.v, username.v,
                                        app_password.v))
                 ELSE d)

\* os.environ as it is when the module is imported and no site is configured
ImportEnv == (<<"P", "A", "T", "H">> :> <<"/">>)

\* load_wordpress_sites that reads the configuration as it was at import
load_wordpress_sites_at_import(e, order) == LoadLoop(ImportEnv, order, <<>>)

load_wordpress_sites(e, order) == LoadLoop(e, order, <<>>)

Raise(type, message) == [kind |-> "raise", type |-> type, message |-> message]
Return(value) == [kind |-> "return", value |-> value]

\* get_site without the test for an empty registry
get_site_no_empty_check(d, site_name) ==
    IF ~HasKey(d, site_name)
    THEN Raise("ValueError",
             NotFoundHead \o site_name \o NotFoundMid
                 \o join(CommaSpace, DictKeys(d)))
    ELSE Return(DictGet(d, site_name))

\* get_site whose message leaves out the first registry key
get_site_drops_a_name(d, site_name) ==
    IF d = <<>>
    THEN Raise("ValueError", NoSitesMessage)
    ELSE IF ~HasKey(d, site_name)
    THEN Raise("ValueError",
             NotFoundHead \o site_name \o NotFoundMid
                 \o join(CommaSpace, Tail(DictKeys(d))))
    ELSE Return(DictGet(d, site_name))

\* get_site after the registry `d` has been loaded
get_site(d, site_name) ==
    IF d = <<>>
    THEN Raise("ValueError", NoSitesMessage)
    ELSE IF ~HasKey(d, site_name)
    THEN Raise("ValueError",
             NotFoundHead \o site_name \o NotFoundMid
                 \o join(CommaSpace, DictKeys(d)))
    ELSE Return(DictGet(d, site_name))

\* ------------------------------------------------------------------------
\* Credential encoder

\* the printable ASCII characters, from code 32 on (the double quote, the
\* backslash and the backquote, which no text here uses, are held by names)
Ascii ==
    <<" ", "!", "dquote", "#", "$", "%", "&", "'", "(", ")", "*", "+", ",", "-", ".", "/",
      "0", "1", "2", "3", "4", "5", "6", "7", "8", "9", ":", ";", "<", "=", ">", "?",
      "@", "A", "B", "C", "D", "E", "F", "G", "H", "I", "J", "K", "L", "M", "N", "O",
      "P", "Q", "R", "S", "T", "U", "V", "W", "X", "Y", "Z", "[", "bslash", "]", "^", "_",
      "bquote", "a", "b", "c", "d", "e", "f", "g", "h", "i", "j", "k", "l", "m", "n", "o",
      "p", "q", "r", "s", "t", "u", "v", "w", "x", "y", "z", "{", "|", "}", "~">>

\* credentials.encode('utf-8'), for ASCII text: one byte per character
encode_utf8(s) == [i \in 1..Len(s) |-> 31 + IndexOf(s[i], Ascii)]

Base64Alphabet ==
    <<"A", "B", "C", "D", "E", "F", "G", "H", "I", "J", "K", "L", "M", "N", "O", "P",
      "Q", "R", "S", "T", "U", "V", "W", "X", "Y", "Z", "a", "b", "c", "d", "e", "f",
      "g", "h", "i", "j", "k", "l", "m", "n", "o", "p", "q", "r", "s", "t", "u", "v",
      "w", "x", "y", "z", "0", "1", "2", "3", "4", "5", "6", "7", "8", "9", "+", "/">>

\* base64.b64encode(bytes).decode('utf-8')
RECURSIVE b64encode(_)
b64encode(b) ==
    IF Len(b) = 0 THEN <<>>
    ELSE IF Len(b) = 1
    THEN <<Base64Alphabet[(b[1] \div 4) + 1],
           Base64Alphabet[((b[1] % 4) * 16) + 1], "=", "=">>
    ELSE IF Len(b) = 2
    THEN <<Base64Alphabet[(b[1] \div 4) + 1],
           Base64Alphabet[((b[1] % 4) * 16 + (b[2] \div 16)) + 1],
           Base64Alphabet[((b[2] % 16) * 4) + 1], "=">>
    ELSE <<Base64Alphabet[(b[1] \div 4) + 1],
           Base64Alphabet[((b[1] % 4) * 16 + (b[2] \div 16)) + 1],
           Base64Alphabet[((b[2] % 16) * 4 + (b[3] \div 64)) + 1],
           Base64Alphabet[(b[3] % 64) + 1]>>
         \o b64encode(SubSeq(b, 4, Len(b)))

Basic_ == <<"B", "a", "s", "i", "c", " ">>
ApplicationJson ==
    <<"a", "p", "p", "l", "i", "c", "a", "t", "i", "o", "n", "/", "j", "s", "o", "n">>

\* get_auth_headers that encodes the username alone
get_auth_headers_no_secret(site) ==
    ("Authorization" :> (Basic_ \o b64encode(encode_utf8(site.username \o <<":">>))))
    @@ ("Content-Type" :> ApplicationJson)

\* WordPressSite.get_auth_headers
get_auth_headers(site) ==
    LET credentials == site.username \o <<":">> \o site.app_password
        encoded == b64encode(encode_utf8(credentials))
    IN  ("Authorization" :> (Basic_ \o encoded))
        @@ ("Content-Type" :> ApplicationJson)

WpJsonV2 == <<"/", "w", "p", "-", "j", "s", "o", "n", "/", "w", "p", "/", "v", "2">>

\* get_api_base_url that keeps the trailing slashes
get_api_base_url_no_rstrip(site) == site.url \o WpJsonV2

\* WordPressSite.get_api_base_url
get_api_base_url(site) == rstrip(site.url, "/") \o WpJsonV2

\* ------------------------------------------------------------------------
\* Request dispatcher

GET == <<"G", "E", "T">>
POST == <<"P", "O", "S", "T">>
PUT == <<"P", "U", "T">>
PATCH == <<"P", "A", "T", "C", "H">>
DELETE == <<"D", "E", "L", "E", "T", "E">>
UnsupportedMessage ==
    <<"U", "n", "s", "u", "p", "p", "o", "r", "t", "e", "d", " ", "H", "T", "T",
      "P", " ", "m", "e", "t", "h", "o", "d", ":", " ">>

EmptyDict == PyDict(<<>>)

\* requests.<verb>(url, headers=headers, params=..., json=...); an argument
\* that is not passed is None: no query string, no body
HttpRequest(verb, url, headers, params, json) ==
    [verb |-> verb, url |-> url, headers |-> headers, params |-> params,
     json |-> json]

Send(request) == [kind |-> "send", request |-> request]

\* make_wp_request whose DELETE carries data as a body
make_wp_request_delete_body(d, site_name, endpoint, params, method, data) ==
    LET found == get_site(d, site_name)
        site == found.value
        url == get_api_base_url(site) \o <<"/">> \o endpoint
        headers == get_auth_headers(site)
        m == upper(method)
    IN  IF found.kind = "raise" THEN found
        ELSE IF m = GET
        THEN Send(HttpRequest(GET, url, headers, PyOr(params, EmptyDict), PyNone))
        ELSE IF m \in {POST, PUT, PATCH}
        THEN Send(HttpRequest(m, url, headers, PyNone,
                              PyOr(PyOr(data, params), EmptyDict)))
        ELSE IF m = DELETE
        THEN Send(HttpRequest(DELETE, url, headers, PyOr(params, EmptyDict), data))
        ELSE Raise("ValueError", UnsupportedMessage \o m)

\* make_wp_request that falls back to GET for a method it does not know
make_wp_request_default_get(d, site_name, endpoint, params, method, data) ==
    LET found == get_site(d, site_name)
        site == found.value
        url == get_api_base_url(site) \o <<"/">> \o endpoint
        headers == get_auth_headers(site)
        m == upper(method)
    IN  IF found.kind = "raise" THEN found
        ELSE IF m \in {POST, PUT, PATCH}
        THEN Send(HttpRequest(m, url, headers, PyNone,
                              PyOr(PyOr(data, params), EmptyDict)))
        ELSE IF m = DELETE
        THEN Send(HttpRequest(DELETE, url, headers, PyOr(params, EmptyDict), PyNone))
        ELSE Send(HttpRequest(GET, url, headers, PyOr(params, EmptyDict), PyNone))

\* make_wp_request that serves a name the registry does not hold with the
\* first site of the registry
make_wp_request_any_site(d, site_name, endpoint, params, method, data) ==
    LET found == IF d # <<>> /\ ~HasKey(d, site_name)
                 THEN Return(d[1].value)
                 ELSE get_site(d, site_name)
        site == found.value
        url == get_api_base_url(site) \o <<"/">> \o endpoint
        headers == get_auth_headers(site)
        m == upper(method)
    IN  IF found.kind = "raise" THEN found
        ELSE IF m = GET
        THEN Send(HttpRequest(GET, url, headers, PyOr(params, EmptyDict), PyNone))
        ELSE IF m = POST
        THEN Send(HttpRequest(POST, url, headers, PyNone,
                              PyOr(PyOr(data, params), EmptyDict)))
        ELSE IF m = PUT
        THEN Send(HttpRequest(PUT, url, headers, PyNone,
                              PyOr(PyOr(data, params), EmptyDict)))
        ELSE IF m = PATCH
        THEN Send(HttpRequest(PATCH, url, headers, PyNone,
                              PyOr(PyOr(data, params), EmptyDict)))
        ELSE IF m = DELETE
        THEN Send(HttpRequest(DELETE, url, headers, PyOr(params, EmptyDict), PyNone))
        ELSE Raise("ValueError", UnsupportedMessage \o m)

\* make_wp_request that takes the credentials of the first site of the
\* registry
make_wp_request_first_credentials(d, site_name, endpoint, params, method, data) ==
    LET found == get_site(d, site_name)
        site == found.value
        url == get_api_base_url(site) \o <<"/">> \o endpoint
        headers == get_auth_headers(d[1].value)
        m == upper(method)
    IN  IF found.kind = "raise" THEN found
        ELSE IF m = GET
        THEN Send(HttpRequest(GET, url, headers, PyOr(params, EmptyDict), PyNone))
        ELSE IF m = POST
        THEN Send(HttpRequest(POST, url, headers, PyNone,
                              PyOr(PyOr(data, params), EmptyDict)))
        ELSE IF m = PUT
        THEN Send(HttpRequest(PUT, url, headers, PyNone,
                              PyOr(PyOr(data, params), EmptyDict)))
        ELSE IF m = PATCH
        THEN Send(HttpRequest(PATCH, url, headers, PyNone,
                              PyOr(PyOr(data, params), EmptyDict)))
        ELSE IF m = DELETE
        THEN Send(HttpRequest(DELETE, url, headers, PyOr(params, EmptyDict), PyNone))
        ELSE Raise("ValueError", UnsupportedMessage \o m)

\* make_wp_request up to the HTTP call, the registry `d` having been loaded:
\* the error it raises, or the request it sends
make_wp_request(d, site_name, endpoint, params, method, data) ==
    LET found == get_site(d, site_name)
        site == found.value
        url == get_api_base_url(site) \o <<"/">> \o endpoint
        headers == get_auth_headers(site)
        m == upper(method)
    IN  IF found.kind = "raise" THEN found
        ELSE IF m = GET
        THEN Send(HttpRequest(GET, url, headers, PyOr(params, EmptyDict), PyNone))
        ELSE IF m = POST
        THEN Send(HttpRequest(POST, url, headers, PyNone,
                              PyOr(PyOr(data, params), EmptyDict)))
        ELSE IF m = PUT
        THEN Send(HttpRequest(PUT, url, headers, PyNone,
                              PyOr(PyOr(data, params), EmptyDict)))
        ELSE IF m = PATCH
        THEN Send(HttpRequest(PATCH, url, headers, PyNone,
                              PyOr(PyOr(data, params), EmptyDict)))
        ELSE IF m = DELETE
        THEN Send(HttpRequest(DELETE, url, headers, PyOr(params, EmptyDict), PyNone))
        ELSE Raise("ValueError", UnsupportedMessage \o m)

\* a response body that is no JSON document
NotJson == [t |-> "text"]

\* response.raise_for_status(), which raises for the statuses 400..599 only,
\* then response.json()
HandleResponse(status, body) ==
    IF status >= 400 /\ status < 600
    THEN [kind |-> "raise", type |-> "HTTPError", status |-> status]
    ELSE IF body = NotJson
    THEN [kind |-> "raise", type |-> "JSONDecodeError"]
    ELSE Return(body)

\* ------------------------------------------------------------------------
\* Text of values and errors

DigitChars == <<"0", "1", "2", "3", "4", "5", "6", "7", "8", "9">>

\* str(n) of an int
RECURSIVE str_nat(_)
str_nat(n) ==
    IF n < 10 THEN <<DigitChars[n + 1]>>
    ELSE str_nat(n \div 10) \o <<DigitChars[(n % 10) + 1]>>

str_int(n) == IF n < 0 THEN <<"-">> \o str_nat(0 - n) ELSE str_nat(n)

\* a value inside an f-string
format(x) ==
    CASE x.t = "str" -> x.v
      [] x.t = "int" -> str_int(x.v)
      [] x.t = "None" -> <<"N", "o", "n", "e">>

ClientError == <<" ", "C", "l", "i", "e", "n", "t", " ", "E", "r", "r", "o", "r", ":",
      " ">>
ServerError == <<" ", "S", "e", "r", "v", "e", "r", " ", "E", "r", "r", "o", "r", ":",
      " ">>
ForUrl == <<" ", "f", "o", "r", " ", "u", "r", "l", ":", " ">>
ExpectingValue ==
    <<"E", "x", "p", "e", "c", "t", "i", "n", "g", " ", "v", "a", "l", "u",
      "e", ":", " ", "l", "i", "n", "e", " ", "1", " ", "c", "o", "l", "u",
      "m", "n", " ", "1", " ", "(", "c", "h", "a", "r", " ", "0", ")">>
ConnectionAborted == <<"C", "o", "n", "n", "e", "c", "t", "i", "o", "n", " ", "a", "b", "o",
      "r", "t", "e", "d", ".">>

\* str(e): the message of a ValueError; the text requests gives an HTTPError
\* raised for a response without a reason phrase to a request for `url`
str_error(e, url) ==
    CASE e.type = "ValueError" -> e.message
      [] e.type = "HTTPError" ->
            str_int(e.status)
                \o (IF e.status < 500 THEN ClientError ELSE ServerError)
                \o ForUrl \o url
      [] e.type = "JSONDecodeError" -> ExpectingValue
      [] e.type = "ConnectionError" -> ConnectionAborted

\* d.get(key, default) of a dict
Get(d, key, default) == IF key \in DOMAIN d.v THEN d.v[key] ELSE default

\* ------------------------------------------------------------------------
\* Tools and resources.  An operation that has started either waits on the
\* request it issued last or has ended in a value or an error.

Pending == [kind |-> "pending"]
Waiting(w) == [outcome |-> Pending, wire |-> w]
Done(o, w) == [outcome |-> o, wire |-> w]

\* `return make_wp_request(...)`: the request is sent, or its error raised
Started(r) == IF r.kind = "send" THEN Waiting(<<r.request>>) ELSE Done(r, <<>>)

PostsEndpoint == <<"p", "o", "s", "t", "s">>
PagesEndpoint == <<"p", "a", "g", "e", "s">>
CategoriesEndpoint == <<"c", "a", "t", "e", "g", "o", "r", "i", "e", "s">>
TagsEndpoint == <<"t", "a", "g", "s">>
MediaEndpoint == <<"m", "e", "d", "i", "a">>
SettingsEndpoint == <<"s", "e", "t", "t", "i", "n", "g", "s">>
Publish == <<"p", "u", "b", "l", "i", "s", "h">>

\* get_site_settings(site_name)
get_site_settings(d, site_name) ==
    make_wp_request(d, site_name, SettingsEndpoint, PyNone, GET, PyNone)

ErrorFetchingSiteInfo ==
    <<"E", "r", "r", "o", "r", " ", "f", "e", "t", "c", "h", "i", "n", "g",
      " ", "s", "i", "t", "e", " ", "i", "n", "f", "o", ":", " ">>
ErrorFetchingSiteStats ==
    <<"E", "r", "r", "o", "r", " ", "f", "e", "t", "c", "h", "i", "n", "g",
      " ", "s", "i", "t", "e", " ", "s", "t", "a", "t", "s", ":", " ">>

\* the text get_site_info returns for `site` and its settings
SiteInfoReport(site, s) ==
    join(<<"\n">>,
         << <<"#", " ">>
                \o format(Get(s, "title",
                              PyStr(<<"W", "o", "r", "d", "P", "r", "e", "s", "s",
                                      " ", "S", "i", "t", "e">>))),
            <<>>,
            <<"*", "*", "U", "R", "L", ":", "*", "*", " ">> \o site.url,
            <<"*", "*", "D", "e", "s", "c", "r", "i", "p", "t", "i", "o",
             "n", ":", "*", "*", " ">>
                \o format(Get(s, "description", PyStr(<<"N", "/", "A">>))),
            <<"*", "*", "L", "a", "n", "g", "u", "a", "g", "e", ":", "*",
             "*", " ">>
                \o format(Get(s, "language", PyStr(<<"N", "/", "A">>))),
            <<"*", "*", "T", "i", "m", "e", "z", "o", "n", "e", ":", "*",
             "*", " ">>
                \o format(Get(s, "timezone_string", PyStr(<<"N", "/", "A">>))),
            <<"*", "*", "D", "a", "t", "e", " ", "F", "o", "r", "m", "a",
             "t", ":", "*", "*", " ">>
                \o format(Get(s, "date_format", PyStr(<<"N", "/", "A">>))),
            <<"*", "*", "T", "i", "m", "e", " ", "F", "o", "r", "m", "a",
             "t", ":", "*", "*", " ">>
                \o format(Get(s, "time_format", PyStr(<<"N", "/", "A">>))),
            <<>>,
            <<"*", "*", "A", "P", "I", " ", "B", "a", "s", "e", ":", "*",
             "*", " ">> \o get_api_base_url(site) >>)

\* get_site_info(site_name) from the point it has reached: `found` is the
\* result of its get_site(site_name), `w` holds the request it has issued and
\* `r` the result of that request; d is the registry loaded by
\* make_wp_request.  Every exception is caught and returned as text.
get_site_info(found, d, site_name, w, r) ==
    IF w = <<>>
    THEN LET sent == make_wp_request(d, site_name, SettingsEndpoint, PyNone,
                                     GET, PyNone)
         IN  IF found.kind = "raise"
             THEN Done(Return(PyStr(ErrorFetchingSiteInfo \o found.message)), w)
             ELSE IF sent.kind = "raise"
             THEN Done(Return(PyStr(ErrorFetchingSiteInfo \o sent.message)), w)
             ELSE Waiting(<<sent.request>>)
    ELSE IF r.kind = "raise"
    THEN Done(Return(PyStr(ErrorFetchingSiteInfo \o str_error(r, w[Len(w)].url))), w)
    ELSE Done(Return(PyStr(SiteInfoReport(found.value, r.value))), w)

\* the five requests of get_site_stats, in the order of the source
StatsCalls ==
    << [endpoint |-> PostsEndpoint,
        params |-> PyDict([per_page |-> PyInt(1), status |-> PyStr(Publish)])],
       [endpoint |-> PagesEndpoint, params |-> PyDict([per_page |-> PyInt(1)])],
       [endpoint |-> CategoriesEndpoint, params |-> PyDict([per_page |-> PyInt(1)])],
       [endpoint |-> TagsEndpoint, params |-> PyDict([per_page |-> PyInt(1)])],
       [endpoint |-> MediaEndpoint, params |-> PyDict([per_page |-> PyInt(1)])] >>

\* the text get_site_stats returns when its five requests succeeded
SiteStatsReport(site_name) ==
    join(<<"\n">>,
         << <<"#", " ", "S", "i", "t", "e", " ", "S", "t", "a", "t", "i",
             "s", "t", "i", "c", "s", ":", " ">> \o site_name,
            <<>>,
            <<"#", "#", " ", "C", "o", "n", "t", "e", "n", "t", " ", "O",
             "v", "e", "r", "v", "i", "e", "w">>,
            <<"-", " ", "P", "o", "s", "t", "s", " ", "a", "v", "a", "i",
             "l", "a", "b", "l", "e">>,
            <<"-", " ", "P", "a", "g", "e", "s", " ", "a", "v", "a", "i",
             "l", "a", "b", "l", "e">>,
            <<"-", " ", "C", "a", "t", "e", "g", "o", "r", "i", "e", "s",
             " ", "a", "v", "a", "i", "l", "a", "b", "l", "e">>,
            <<"-", " ", "T", "a", "g", "s", " ", "a", "v", "a", "i", "l",
             "a", "b", "l", "e">>,
            <<"-", " ", "M", "e", "d", "i", "a", " ", "i", "t", "e", "m",
             "s", " ", "a", "v", "a", "i", "l", "a", "b", "l", "e">>,
            <<>>,
            <<"N", "o", "t", "e", ":", " ", "U", "s", "e", " ", "s", "p",
             "e", "c", "i", "f", "i", "c", " ", "t", "o", "o", "l", "s",
             " ", "t", "o", " ", "g", "e", "t", " ", "e", "x", "a", "c", "t",
             " ", "c", "o", "u", "n", "t", "s", " ", "a", "n", "d", " ",
             "d", "e", "t", "a", "i", "l", "s">> >>)

\* get_site_stats(site_name) from the point it has reached: `w` holds the
\* requests it has issued, `r` the result of the last of them; d is the
\* registry loaded by the next make_wp_request.  One try block holds the five
\* requests: the first exception ends the operation with a text.
get_site_stats(d, site_name, w, r) ==
    IF w # <<>> /\ r.kind = "raise"
    THEN Done(Return(PyStr(ErrorFetchingSiteStats \o str_error(r, w[Len(w)].url))), w)
    ELSE IF Len(w) < Len(StatsCalls)
    THEN LET next == StatsCalls[Len(w) + 1]
             sent == make_wp_request(d, site_name, next.endpoint, next.params,
                                     GET, PyNone)
         IN  IF sent.kind = "raise"
             THEN Done(Return(PyStr(ErrorFetchingSiteStats \o sent.message)), w)
             ELSE Waiting(Append(w, sent.request))
    ELSE Done(Return(PyStr(SiteStatsReport(site_name))), w)

\* ------------------------------------------------------------------------
\* Tool adapters: each builds its query or its body and returns
\* make_wp_request(...)

CommentsEndpoint == <<"c", "o", "m", "m", "e", "n", "t", "s">>
UsersEndpoint == <<"u", "s", "e", "r", "s">>

\* `if test: data[key] = value`
Item(test, key, value) == IF test THEN key :> value ELSE <<>>

\* get_post_by_id that asks for the first post whatever its argument
get_post_by_id_first(d, site_name, post_id) ==
    make_wp_request(d, site_name, PostsEndpoint \o <<"/", "1">>, PyNone, GET, PyNone)

\* get_post_by_id(site_name, post_id)
get_post_by_id(d, site_name, post_id) ==
    make_wp_request(d, site_name, PostsEndpoint \o <<"/">> \o format(post_id),
                    PyNone, GET, PyNone)

\* create_post(site_name, title, content, status, excerpt, categories, tags)
create_post(d, site_name, title, content, status, excerpt, categories, tags) ==
    LET data == [title |-> title, content |-> content, status |-> status]
                    @@ Item(Truthy(excerpt), "excerpt", excerpt)
                    @@ Item(Truthy(categories), "categories", categories)
                    @@ Item(Truthy(tags), "tags", tags)
    IN  make_wp_request(d, site_name, PostsEndpoint, PyNone, POST, PyDict(data))

\* update_post(site_name, post_id, title, content, status, excerpt,
\* categories, tags)
update_post(d, site_name, post_id, title, content, status, excerpt, categories, tags) ==
    LET data == Item(title # PyNone, "title", title)
                    @@ Item(content # PyNone, "content", content)
                    @@ Item(status # PyNone, "status", status)
                    @@ Item(excerpt # PyNone, "excerpt", excerpt)
                    @@ Item(categories # PyNone, "categories", categories)
                    @@ Item(tags # PyNone, "tags", tags)
    IN  make_wp_request(d, site_name, PostsEndpoint \o <<"/">> \o format(post_id),
                        PyNone, POST, PyDict(data))

\* delete_post(site_name, post_id, force)
delete_post(d, site_name, post_id, force) ==
    make_wp_request(d, site_name, PostsEndpoint \o <<"/">> \o format(post_id),
                    PyDict([force |-> force]), DELETE, PyNone)

\* create_page(site_name, title, content, status, parent)
create_page(d, site_name, title, content, status, parent) ==
    LET data == [title |-> title, content |-> content, status |-> status]
                    @@ Item(Truthy(parent), "parent", parent)
    IN  make_wp_request(d, site_name, PagesEndpoint, PyNone, POST, PyDict(data))

\* create_category(site_name, name, description, slug, parent)
create_category(d, site_name, name, description, slug, parent) ==
    LET data == [name |-> name]
                    @@ Item(Truthy(description), "description", description)
                    @@ Item(Truthy(slug), "slug", slug)
                    @@ Item(Truthy(parent), "parent", parent)
    IN  make_wp_request(d, site_name, CategoriesEndpoint, PyNone, POST,
                        PyDict(data))

\* get_comments(site_name, post_id, count)
get_comments(d, site_name, post_id, count) ==
    LET params == [per_page |-> count] @@ Item(Truthy(post_id), "post", post_id)
    IN  make_wp_request(d, site_name, CommentsEndpoint, PyDict(params), GET,
                        PyNone)

\* delete_user(site_name, user_id, reassign, force)
delete_user(d, site_name, user_id, reassign, force) ==
    LET params == [force |-> force]
                      @@ Item(Truthy(reassign), "reassign", reassign)
    IN  make_wp_request(d, site_name, UsersEndpoint \o <<"/">> \o format(user_id),
                        PyDict(params), DELETE, PyNone)

\* create_comment(site_name, post_id, content, author_name, author_email,
\* parent)
create_comment(d, site_name, post_id, content, author_name, author_email, parent) ==
    LET data == [post |-> post_id, content |-> content]
                    @@ Item(Truthy(author_name), "author_name", author_name)
                    @@ Item(Truthy(author_email), "author_email", author_email)
                    @@ Item(Truthy(parent), "parent", parent)
    IN  make_wp_request(d, site_name, CommentsEndpoint, PyNone, POST,
                        PyDict(data))

\* ------------------------------------------------------------------------
\* The date window of get_posts_by_date

\* f"{n:02d}": the digits of n, a sign included, filled with zeros on the
\* left up to two characters
format_02d(n) ==
    LET s == str_int(n.v)
    IN  IF Len(s) < 2 THEN <<"0">> \o s ELSE s

FirstOfMonth == <<"-", "0", "1", "T", "0", "0", ":", "0", "0", ":", "0", "0">>
FirstOfYear == <<"-", "0", "1", "-", "0", "1", "T", "0", "0", ":", "0", "0", ":", "0",
      "0">>

\* get_posts_by_date whose window ends in the year it begins in
get_posts_by_date_same_year(d, site_name, year, month, count) ==
    LET after == IF ~Truthy(month)
                 THEN format(year) \o FirstOfYear
                 ELSE format(year) \o <<"-">> \o format_02d(month) \o FirstOfMonth
        next_month == IF month.v < 12 THEN PyInt(month.v + 1) ELSE PyInt(1)
        next_year == year
        before == IF Truthy(month)
                  THEN format(next_year) \o <<"-">> \o format_02d(next_month)
                           \o FirstOfMonth
                  ELSE format(PyInt(year.v + 1)) \o FirstOfYear
        params == [after |-> PyStr(after), before |-> PyStr(before),
                   per_page |-> count]
    IN  make_wp_request(d, site_name, PostsEndpoint, PyDict(params), GET, PyNone)

\* get_posts_by_date(site_name, year, month, count)
get_posts_by_date(d, site_name, year, month, count) ==
    LET after == IF ~Truthy(month)
                 THEN format(year) \o FirstOfYear
                 ELSE format(year) \o <<"-">> \o format_02d(month) \o FirstOfMonth
        next_month == IF month.v < 12 THEN PyInt(month.v + 1) ELSE PyInt(1)
        next_year == IF month.v < 12 THEN year ELSE PyInt(year.v + 1)
        before == IF Truthy(month)
                  THEN format(next_year) \o <<"-">> \o format_02d(next_month)
                           \o FirstOfMonth
                  ELSE format(PyInt(year.v + 1)) \o FirstOfYear
        params == [after |-> PyStr(after), before |-> PyStr(before),
                   per_page |-> count]
    IN  make_wp_request(d, site_name, PostsEndpoint, PyDict(params), GET, PyNone)

\* ------------------------------------------------------------------------
\* The response shaper: get_posts_summary

Unknown == <<"U", "n", "k", "n", "o", "w", "n">>
NoTitle == <<"N", "o", " ", "t", "i", "t", "l", "e">>
True_ == <<"t", "r", "u", "e">>
KeyErrorName == <<"'", "n", "a", "m", "e", "'">>
NoneHasNoGet ==
    <<"'", "N", "o", "n", "e", "T", "y", "p", "e", "'", " ", "o", "b", "j",
      "e", "c", "t", " ", "h", "a", "s", " ", "n", "o", " ", "a", "t", "t",
      "r", "i", "b", "u", "t", "e", " ", "'", "g", "e", "t", "'">>

\* key in d, for a dict d
Has(d, key) == key \in DOMAIN d.v

\* [cat["name"] for cat in terms]: the names in the order of the terms, or the
\* KeyError of the first term that has no name
CategoryNames(terms) ==
    IF \E i \in 1..Len(terms) : ~Has(terms[i], "name")
    THEN Raise("KeyError", KeyErrorName)
    ELSE Return(PyList([i \in 1..Len(terms) |-> terms[i].v["name"]]))

\* the loop body of get_posts_summary with "Anonymous" for the author default
summarize_other_default(post) ==
    LET embedded == post.v["_embedded"]
        cats == IF /\ Has(post, "_embedded")
                   /\ Has(embedded, "wp:term")
                   /\ Len(embedded.v["wp:term"].v) > 0
                THEN CategoryNames(embedded.v["wp:term"].v[1].v)
                ELSE Return(PyList(<<>>))
        title == Get(post, "title", EmptyDict)
    IN  IF cats.kind = "raise" THEN cats
        ELSE IF title.t # "dict" THEN Raise("AttributeError", NoneHasNoGet)
        ELSE Return(PyDict(
                 [id |-> Get(post, "id", PyNone),
                  title |-> Get(title, "rendered", PyStr(NoTitle)),
                  author |-> PyStr(<<"A", "n", "o", "n", "y", "m", "o", "u", "s">>),
                  categories |-> cats.value,
                  date |-> Get(post, "date", PyNone),
                  link |-> Get(post, "link", PyNone),
                  status |-> Get(post, "status", PyNone)]))

\* the loop body of get_posts_summary that reads the names of an absent
\* wp:term array
summarize_no_guard(post) ==
    LET embedded == post.v["_embedded"]
        cats == CategoryNames(embedded.v["wp:term"].v[1].v)
        author_name ==
            IF /\ Has(post, "_embedded")
               /\ Has(embedded, "author")
               /\ Len(embedded.v["author"].v) > 0
            THEN Get(embedded.v["author"].v[1], "name", PyStr(Unknown))
            ELSE PyStr(Unknown)
        title == Get(post, "title", EmptyDict)
    IN  IF ~Has(post, "_embedded") THEN Raise("KeyError", <<"_">>)
        ELSE IF ~Has(embedded, "wp:term") THEN Raise("KeyError", <<"w">>)
        ELSE IF Len(embedded.v["wp:term"].v) = 0 THEN Raise("IndexError", <<>>)
        ELSE IF cats.kind = "raise" THEN cats
        ELSE IF title.t # "dict" THEN Raise("AttributeError", NoneHasNoGet)
        ELSE Return(PyDict(
                 [id |-> Get(post, "id", PyNone),
                  title |-> Get(title, "rendered", PyStr(NoTitle)),
                  author |-> author_name,
                  categories |-> cats.value,
                  date |-> Get(post, "date", PyNone),
                  link |-> Get(post, "link", PyNone),
                  status |-> Get(post, "status", PyNone)]))

\* the loop body of get_posts_summary that keeps each category name once
summarize_dedup(post) ==
    LET embedded == post.v["_embedded"]
        cats == IF /\ Has(post, "_embedded")
                   /\ Has(embedded, "wp:term")
                   /\ Len(embedded.v["wp:term"].v) > 0
                THEN CategoryNames(embedded.v["wp:term"].v[1].v)
                ELSE Return(PyList(<<>>))
        once == SelectSeq([i \in 1..Len(cats.value.v) |-> <<i, cats.value.v[i]>>],
                          LAMBDA p : \A j \in 1..(p[1] - 1) :
                                        cats.value.v[j] # p[2])
        author_name ==
            IF /\ Has(post, "_embedded")
               /\ Has(embedded, "author")
               /\ Len(embedded.v["author"].v) > 0
            THEN Get(embedded.v["author"].v[1], "name", PyStr(Unknown))
            ELSE PyStr(Unknown)
        title == Get(post, "title", EmptyDict)
    IN  IF cats.kind = "raise" THEN cats
        ELSE IF title.t # "dict" THEN Raise("AttributeError", NoneHasNoGet)
        ELSE Return(PyDict(
                 [id |-> Get(post, "id", PyNone),
                  title |-> Get(title, "rendered", PyStr(NoTitle)),
                  author |-> author_name,
                  categories |-> PyList([i \in 1..Len(once) |-> once[i][2]]),
                  date |-> Get(post, "date", PyNone),
                  link |-> Get(post, "link", PyNone),
                  status |-> Get(post, "status", PyNone)]))

\* the loop body of get_posts_summary: the summary of one post, or the error
\* raised on the way (a category without a name, a title that is null)
summarize(post) ==
    LET embedded == post.v["_embedded"]
        cats == IF /\ Has(post, "_embedded")
                   /\ Has(embedded, "wp:term")
                   /\ Len(embedded.v["wp:term"].v) > 0
                THEN CategoryNames(embedded.v["wp:term"].v[1].v)
                ELSE Return(PyList(<<>>))
        author_name ==
            IF /\ Has(post, "_embedded")
               /\ Has(embedded, "author")
               /\ Len(embedded.v["author"].v) > 0
            THEN Get(embedded.v["author"].v[1], "name", PyStr(Unknown))
            ELSE PyStr(Unknown)
        title == Get(post, "title", EmptyDict)
    IN  IF cats.kind = "raise" THEN cats
        ELSE IF title.t # "dict" THEN Raise("AttributeError", NoneHasNoGet)
        ELSE Return(PyDict(
                 [id |-> Get(post, "id", PyNone),
                  title |-> Get(title, "rendered", PyStr(NoTitle)),
                  author |-> author_name,
                  categories |-> cats.value,
                  date |-> Get(post, "date", PyNone),
                  link |-> Get(post, "link", PyNone),
                  status |-> Get(post, "status", PyNone)]))

\* the loop of get_posts_summary: the summaries in the order of the posts, or
\* the error of the first post that raises
RECURSIVE Summaries(_)
Summaries(ps) ==
    IF ps = <<>> THEN Return(PyList(<<>>))
    ELSE LET s == summarize(Head(ps))
             rest == Summaries(Tail(ps))
         IN  IF s.kind = "raise" THEN s
             ELSE IF rest.kind = "raise" THEN rest
             ELSE Return(PyList(<<s.value>> \o rest.value.v))

\* get_posts_summary(site_name, count, status) from the point it has reached:
\* `w` holds the request it has issued, `r` the result of that request
get_posts_summary(d, site_name, count, status, w, r) ==
    IF w = <<>>
    THEN Started(make_wp_request(d, site_name, PostsEndpoint,
                                 PyDict(("per_page" :> count) @@ ("status" :> status)
                                            @@ ("_embed" :> PyStr(True_))),
                                 GET, PyNone))
    ELSE IF r.kind = "raise" THEN Done(r, w)
    ELSE Done(Summaries(r.value.v), w)

\* ------------------------------------------------------------------------
\* Site listings: the resource sites://list and the tool get_available_sites

NoSitesShort ==
    <<"N", "o", " ", "W", "o", "r", "d", "P", "r", "e", "s", "s", " ", "s",
      "i", "t", "e", "s", " ", "c", "o", "n", "f", "i", "g", "u", "r", "e",
      "d", ".", " ", "P", "l", "e", "a", "s", "e", " ", "s", "e", "t", " ",
      "e", "n", "v", "i", "r", "o", "n", "m", "e", "n", "t", " ", "v", "a",
      "r", "i", "a", "b", "l", "e", "s", ".">>
ListHeading == <<"#", " ", "C", "o", "n", "f", "i", "g", "u", "r", "e", "d", " ", "W",
      "o", "r", "d", "P", "r", "e", "s", "s", " ", "S", "i", "t", "e", "s">> \o <<"\n">>

\* the lines list_sites appends for the items of the registry from the i-th on
RECURSIVE ListLines(_, _)
ListLines(d, i) ==
    IF i > Len(d) THEN <<>>
    ELSE << <<"#", "#", " ">> \o d[i].key,
            <<"-", " ", "U", "R", "L", ":", " ">> \o d[i].value.url,
            <<"-", " ", "U", "s", "e", "r", "n", "a", "m", "e", ":", " ">> \o d[i].value.username,
            <<"-", " ", "A", "P", "I", ":", " ">> \o get_api_base_url(d[i].value) \o <<"\n">> >>
         \o ListLines(d, i + 1)

\* list_sites(), the registry `d` having been loaded
list_sites(d) ==
    IF d = <<>> THEN Return(PyStr(NoSitesShort))
    ELSE Return(PyStr(join(<<"\n">>, <<ListHeading>> \o ListLines(d, 1))))

\* get_available_sites that adds the application password to each entry
get_available_sites_with_secret(d) ==
    Return(PyList([i \in 1..Len(d) |->
        PyDict([name |-> PyStr(d[i].key),
                url |-> PyStr(d[i].value.url),
                api_base |-> PyStr(get_api_base_url(d[i].value)),
                app_password |-> PyStr(d[i].value.app_password)])]))

\* get_available_sites(), the registry `d` having been loaded
get_available_sites(d) ==
    Return(PyList([i \in 1..Len(d) |->
        PyDict([name |-> PyStr(d[i].key),
                url |-> PyStr(d[i].value.url),
                api_base |-> PyStr(get_api_base_url(d[i].value))])]))

\* ------------------------------------------------------------------------
\* The HTTP server (server_http.py)

MCP_AUTH_TOKEN == <<"M", "C", "P", "_", "A", "U", "T", "H", "_", "T", "O", "K", "E", "N">>

\* AUTH_TOKEN = os.getenv("MCP_AUTH_TOKEN"), read when the module is imported;
\* the environment it is read from is the one the server runs with
AUTH_TOKEN == EnvGet(env, MCP_AUTH_TOKEN)

Bearer_ == <<"B", "e", "a", "r", "e", "r", " ">>
Bearer == <<"B", "e", "a", "r", "e", "r">>
ServerName == <<"W", "o", "r", "d", "P", "r", "e", "s", "s", " ", "M", "u", "l", "t",
      "i", "-", "S", "i", "t", "e", " ", "M", "a", "n", "a", "g", "e", "r">>

\* JSONResponse(content, status_code=..., headers=...) and Response()
JSONResponse(content, status_code, headers) ==
    [status_code |-> status_code, content |-> content, headers |-> headers]
Response == [status_code |-> 200, content |-> PyNone, headers |-> <<>>]

Unauthorized ==
    JSONResponse(
        PyDict([error |-> PyStr(<<"U", "n", "a", "u", "t", "h", "o", "r", "i", "z",
                            "e", "d">>),
                message |-> PyStr(<<"I", "n", "v", "a", "l", "i", "d", " ", "o",
                              "r", " ", "m", "i", "s", "s", "i", "n", "g",
                              " ", "a", "u", "t", "h", "e", "n", "t", "i",
                              "c", "a", "t", "i", "o", "n", " ", "t", "o",
                              "k", "e", "n">>)]),
        401, [name \in {"WWW-Authenticate"} |-> Bearer])

\* request.headers.get(name, default)
HeadersGet(request, name, default) ==
    IF name \in DOMAIN request.headers THEN request.headers[name] ELSE default

\* check_auth that takes every header with the Bearer prefix
check_auth_any_bearer(request) ==
    IF ~Truthy(AUTH_TOKEN)
    THEN [authorized |-> TRUE, error_response |-> PyNone]
    ELSE LET auth_header == HeadersGet(request, "Authorization", <<>>)
             token == IF startswith(auth_header, Bearer_)
                      THEN AUTH_TOKEN.v
                      ELSE auth_header
         IN  IF token # AUTH_TOKEN.v
             THEN [authorized |-> FALSE, error_response |-> Unauthorized]
             ELSE [authorized |-> TRUE, error_response |-> PyNone]

check_auth(request) ==
    IF ~Truthy(AUTH_TOKEN)
    THEN [authorized |-> TRUE, error_response |-> PyNone]
    ELSE LET auth_header == HeadersGet(request, "Authorization", <<>>)
             token == IF startswith(auth_header, Bearer_)
                      THEN SubSeq(auth_header, 8, Len(auth_header))
                      ELSE auth_header
         IN  IF token # AUTH_TOKEN.v
             THEN [authorized |-> FALSE, error_response |-> Unauthorized]
             ELSE [authorized |-> TRUE, error_response |-> PyNone]

\* what a handler did: the response it returned, and the calls it made on
\* the SSE transport
Handled(response, transport) ==
    [kind |-> "return", value |-> response, transport |-> transport]

handle_sse(request) ==
    LET checked == check_auth(request)
    IN  IF ~checked.authorized
        THEN Handled(checked.error_response, <<>>)
        ELSE Handled(PyNone, <<"connect_sse">>)

handle_messages(request) ==
    LET checked == check_auth(request)
    IN  IF ~checked.authorized
        THEN Handled(checked.error_response, <<>>)
        ELSE Handled(Response, <<"handle_post_message">>)

\* handle_health(request), the registry `d` having been loaded
handle_health(request, d) ==
    LET auth_enabled == AUTH_TOKEN # PyNone
    IN  Handled(JSONResponse(
                    PyDict([status |-> PyStr(<<"h", "e", "a", "l", "t", "h", "y">>),
                            server |-> PyStr(ServerName),
                            sites_configured |-> PyInt(Len(d)),
                            site_names |-> PyList([i \in 1..Len(d) |->
                                                      PyStr(DictKeys(d)[i])]),
                            auth_enabled |-> PyBool(auth_enabled)]),
                    200, <<>>),
                <<>>)

handle_root(request) ==
    LET auth_enabled == AUTH_TOKEN # PyNone
    IN  Handled(JSONResponse(
                    PyDict([name |-> PyStr(<<"W", "o", "r", "d", "P", "r", "e", "s",
                                      "s", " ", "M", "u", "l", "t", "i", "-",
                                      "S", "i", "t", "e", " ", "M", "C", "P",
                                      " ", "S", "e", "r", "v", "e", "r">>),
                            version |-> PyStr(<<"1", ".", "0", ".", "0">>),
                            transport |-> PyStr(<<"s", "s", "e">>),
                            auth_enabled |-> PyBool(auth_enabled),
                            endpoints |-> PyDict(
                                [sse |-> PyStr(<<"/", "s", "s", "e">>),
                                 messages |-> PyStr(<<"/", "m", "e", "s", "s", "a", "g",
                                          "e", "s">>),
                                 health |-> PyStr(<<"/", "h", "e", "a", "l", "t", "h">>)]),
                            documentation |-> PyStr(
                                <<"h", "t", "t", "p", "s", ":", "/", "/",
                                  "g", "i", "t", "h", "u", "b", ".", "c",
                                  "o", "m", "/", "s", "i", "l", "h", "a",
                                  "m", "/", "l", "e", "a", "r", "n", "-",
                                  "m", "c", "p">>)]),
                    200, <<>>),
                <<>>)

\* ------------------------------------------------------------------------
\* The server between two calls, and the end of a call

NoCall == [op |-> "none"]
NoOutcome == [kind |-> "none"]
NoPrev == [call |-> NoCall, outcome |-> NoOutcome]

Idle == call = NoCall

\* the caller receives the value or the error; the locals of the call are gone
Finish ==
    /\ call # NoCall
    /\ outcome.kind \in {"return", "raise"}
    /\ call' = NoCall
    /\ outcome' = NoOutcome
    /\ sites' = <<>>
    /\ wire' = <<>>
    /\ replies' = <<>>
    /\ UNCHANGED <<env, backend, prev>>

\* ------------------------------------------------------------------------
\* Configurations

nA == <<"A">>
na == <<"a">>
nB == <<"B">>
nEmpty == <<>>
nMySite == <<"M", "Y", "_", "S", "I", "T", "E">>

UrlFor(n) == <<"h", "/">> \o n
UserFor(n) == IF n = nB THEN <<"v">> ELSE <<"u">>
PasswordFor(n) == IF n = nB THEN <<"q">> ELSE <<"p">>

\* a key that is no site key
OtherKey == <<"P", "A", "T", "H">>

EnvOf(pairs) ==
    [k \in {p[1] : p \in pairs} |-> (CHOOSE p \in pairs : p[1] = k)[2]]

\* ------------------------------------------------------------------------
\* The registry specification: load_wordpress_sites and get_site over
\* configurations whose names are complete, or have one part missing or empty

RegistryNames == {nA, na, nEmpty, nMySite}

Shapes == {"absent", "complete", "noUrl", "noUser", "emptyUrl", "emptyPassword"}

Triple(n, shape) ==
    IF shape = "absent" THEN {}
    ELSE ( IF shape = "noUrl" THEN {}
           ELSE {<<SITE_ \o n \o _URL,
                   IF shape = "emptyUrl" THEN <<>> ELSE UrlFor(n)>>} )
         \cup
         ( IF shape = "noUser" THEN {}
           ELSE {<<SITE_ \o n \o _USER, UserFor(n)>>} )
         \cup
         {<<SITE_ \o n \o _APP_PASSWORD,
            IF shape = "emptyPassword" THEN <<>> ELSE PasswordFor(n)>>}

RegistryEnvs ==
    { EnvOf({<<OtherKey, <<"/">>>>} \cup UNION {Triple(n, f[n]) : n \in RegistryNames}) :
        f \in [RegistryNames -> Shapes] }

\* the names get_site is asked for
LookupNames == {nA, na, nEmpty, nMySite, lower(nMySite), <<"b">>}

RegistryInit ==
    /\ env \in RegistryEnvs
    /\ sites = <<>>
    /\ call = NoCall
    /\ outcome = NoOutcome
    /\ wire = <<>>
    /\ replies = <<>>
    /\ backend = <<>>
    /\ prev = NoPrev

\* load_wordpress_sites() called on its own
LoadWordpressSites ==
    /\ Idle
    /\ \E order \in Orders(site_names(env)) :
          /\ sites' = load_wordpress_sites(env, order)
          /\ outcome' = Return(sites')
    /\ call' = [op |-> "load_wordpress_sites"]
    /\ UNCHANGED <<env, wire, replies, backend, prev>>

\* get_site(site_name)
GetSite ==
    /\ Idle
    /\ \E order \in Orders(site_names(env)) :
          /\ sites' = load_wordpress_sites(env, order)
          /\ \E site_name \in LookupNames :
                /\ outcome' = get_site(sites', site_name)
                /\ call' = [op |-> "get_site", site_name |-> site_name]
    /\ UNCHANGED <<env, wire, replies, backend, prev>>

RegistryNext == LoadWordpressSites \/ GetSite \/ Finish

SpecRegistry == RegistryInit /\ [][RegistryNext]_vars

\* ------------------------------------------------------------------------
\* The credential specification: get_auth_headers on one Site after another

MaxSecretLen == 3

\* the strings over `alphabet` of length 1..n
RECURSIVE Strings(_, _)
Strings(alphabet, n) ==
    IF n = 0 THEN {}
    ELSE {<<c>> : c \in alphabet}
         \cup {<<c>> \o t : c \in alphabet, t \in Strings(alphabet, n - 1)}

AuthSites ==
    { WordPressSite(na, UrlFor(na), username, app_password) :
        username \in {<<"u">>, <<"u", "p">>},
        app_password \in Strings({"p", "q"}, MaxSecretLen) }

AuthInit ==
    /\ env = EnvOf({})
    /\ sites = <<>>
    /\ call = NoCall
    /\ outcome = NoOutcome
    /\ wire = <<>>
    /\ replies = <<>>
    /\ backend = <<>>
    /\ prev = NoPrev

\* site.get_auth_headers(); the call before it is remembered
GetAuthHeaders ==
    /\ \E site \in AuthSites :
          /\ call' = [op |-> "get_auth_headers", site |-> site]
          /\ outcome' = Return(get_auth_headers(site))
    /\ prev' = [call |-> call, outcome |-> outcome]
    /\ UNCHANGED <<env, sites, wire, replies, backend>>

AuthNext == GetAuthHeaders

SpecAuth == AuthInit /\ [][AuthNext]_vars

\* ------------------------------------------------------------------------
\* The dispatcher specification: make_wp_request over configurations of the
\* sites A and B, each absent or complete

MaxTrailingSlashes == 2

RECURSIVE Slashes(_)
Slashes(k) == IF k = 0 THEN <<>> ELSE <<"/">> \o Slashes(k - 1)

\* the three keys of a complete site whose URL ends in k slashes
CompleteTriple(n, k) ==
    { <<SITE_ \o n \o _URL, UrlFor(n) \o Slashes(k)>>,
      <<SITE_ \o n \o _USER, UserFor(n)>>,
      <<SITE_ \o n \o _APP_PASSWORD, PasswordFor(n)>> }

DispatchNames == {nA, nB}

DispatchEnvs ==
    { EnvOf({<<OtherKey, <<"/">>>>}
            \cup UNION {IF f[n] < 0 THEN {} ELSE CompleteTriple(n, f[n]) :
                          n \in DispatchNames}) :
        f \in [DispatchNames -> -1..MaxTrailingSlashes] }

SiteNameArgs == {na, <<"b">>, nA}
Endpoints == {<<"p", "o", "s", "t", "s">>, <<"p", "o", "s", "t", "s", "/", "1">>}
ParamsArgs == {PyNone, EmptyDict, PyDict([per_page |-> PyInt(5)])}
DataArgs == {PyNone, EmptyDict, PyDict([title |-> PyStr(<<"T">>)])}
MethodArgs == {GET, <<"g", "e", "t">>, POST, PUT, PATCH, DELETE,
               <<"H", "E", "A", "D">>}
\* the status of the final response: 300 stands for the 3xx responses that
\* requests does not follow (no Location header, 300, 304)
Statuses == {200, 201, 300, 404, 500}
Bodies == {PyDict([id |-> PyInt(1)]), NotJson}

DispatchInit ==
    /\ env \in DispatchEnvs
    /\ sites = <<>>
    /\ call = NoCall
    /\ outcome = NoOutcome
    /\ wire = <<>>
    /\ replies = <<>>
    /\ backend = <<>>
    /\ prev = NoPrev

\* make_wp_request(site_name, endpoint, params, method, data), up to the
\* error it raises or the HTTP request it sends and then waits on
MakeWpRequest ==
    /\ Idle
    /\ \E order \in Orders(site_names(env)) :
          /\ sites' = load_wordpress_sites(env, order)
          /\ \E site_name \in SiteNameArgs, endpoint \in Endpoints,
                params \in ParamsArgs, method \in MethodArgs, data \in DataArgs :
                LET r == make_wp_request(sites', site_name, endpoint, params,
                                         method, data)
                IN  /\ call' = [op |-> "make_wp_request", site_name |-> site_name,
                                endpoint |-> endpoint, params |-> params,
                                method |-> method, data |-> data]
                    /\ IF r.kind = "send"
                       THEN /\ wire' = <<r.request>>
                            /\ outcome' = [kind |-> "pending"]
                       ELSE /\ wire' = <<>>
                            /\ outcome' = r
    /\ UNCHANGED <<env, replies, backend, prev>>

\* the backend answers the request make_wp_request waits on
Respond ==
    /\ outcome.kind = "pending"
    /\ \E status \in Statuses, body \in Bodies :
          /\ replies' = Append(replies, [status |-> status, body |-> body])
          /\ outcome' = HandleResponse(status, body)
    /\ UNCHANGED <<env, sites, call, wire, backend, prev>>

\* the connection fails: requests raises ConnectionError out of
\* make_wp_request
ConnectionFails ==
    /\ outcome.kind = "pending"
    /\ outcome' = [kind |-> "raise", type |-> "ConnectionError"]
    /\ UNCHANGED <<env, sites, call, wire, replies, backend, prev>>

Next == MakeWpRequest \/ Respond \/ ConnectionFails \/ Finish

Init == DispatchInit

Spec == Init /\ [][Next]_vars

\* The dispatcher with its scheduling: a call that has its value or its error
\* returns to its caller.  The requests are made without a timeout argument,
\* so nothing makes the backend answer or the connection fail.
SpecLive == Init /\ [][Next]_vars /\ WF_vars(Finish)

\* ------------------------------------------------------------------------
\* The resource specification: the resources site://{site_name}/info and
\* site://{site_name}/stats and the tool get_site_settings, over
\* configurations of the sites A and B, each absent or complete

ResourceEnvs ==
    { EnvOf({<<OtherKey, <<"/">>>>}
            \cup UNION {IF n \in present THEN CompleteTriple(n, 0) ELSE {} :
                          n \in DispatchNames}) :
        present \in SUBSET DispatchNames }

ResourceSiteNames == {na, <<"c">>}
ResourceStatuses == {200, 404}
ResourceBodies == {PyDict([title |-> PyStr(<<"T">>)]), EmptyDict}

ResourceInit ==
    /\ env \in ResourceEnvs
    /\ sites = <<>>
    /\ call = NoCall
    /\ outcome = NoOutcome
    /\ wire = <<>>
    /\ replies = <<>>
    /\ backend = <<>>
    /\ prev = NoPrev

\* the operation `c` goes on from the result `r` of its last request
Resume(c, d, w, r) ==
    CASE c.op = "get_site_info" -> get_site_info(c.found, d, c.site_name, w, r)
      [] c.op = "get_site_stats" -> get_site_stats(d, c.site_name, w, r)
      [] c.op = "get_posts_summary" ->
            get_posts_summary(d, c.site_name, c.count, c.status, w, r)
      [] OTHER -> Done(r, w)

\* the tool get_site_settings is called
GetSiteSettings ==
    /\ Idle
    /\ \E order \in Orders(site_names(env)), site_name \in ResourceSiteNames :
          LET d == load_wordpress_sites(env, order)
              s == Started(get_site_settings(d, site_name))
          IN  /\ sites' = d
              /\ call' = [op |-> "get_site_settings", site_name |-> site_name]
              /\ outcome' = s.outcome
              /\ wire' = s.wire
    /\ UNCHANGED <<env, replies, backend, prev>>

\* the resource site://{site_name}/info is read
GetSiteInfo ==
    /\ Idle
    /\ \E o1 \in Orders(site_names(env)), o2 \in Orders(site_names(env)),
          site_name \in ResourceSiteNames :
          LET found == get_site(load_wordpress_sites(env, o1), site_name)
              d == load_wordpress_sites(env, o2)
              s == get_site_info(found, d, site_name, <<>>, NoOutcome)
          IN  /\ sites' = d
              /\ call' = [op |-> "get_site_info", site_name |-> site_name,
                          found |-> found]
              /\ outcome' = s.outcome
              /\ wire' = s.wire
    /\ UNCHANGED <<env, replies, backend, prev>>

\* the resource site://{site_name}/stats is read
GetSiteStats ==
    /\ Idle
    /\ \E order \in Orders(site_names(env)), site_name \in ResourceSiteNames :
          LET d == load_wordpress_sites(env, order)
              s == get_site_stats(d, site_name, <<>>, NoOutcome)
          IN  /\ sites' = d
              /\ call' = [op |-> "get_site_stats", site_name |-> site_name]
              /\ outcome' = s.outcome
              /\ wire' = s.wire
    /\ UNCHANGED <<env, replies, backend, prev>>

\* the backend answers the request the operation waits on, and the operation
\* goes on to its next request or to its end
ResourceResponds ==
    /\ outcome.kind = "pending"
    /\ \E status \in ResourceStatuses, body \in ResourceBodies,
          order \in Orders(site_names(env)) :
          LET d == load_wordpress_sites(env, order)
              s == Resume(call, d, wire, HandleResponse(status, body))
          IN  /\ replies' = Append(replies, [status |-> status, body |-> body])
              /\ outcome' = s.outcome
              /\ wire' = s.wire
              /\ sites' = IF s.wire = wire THEN sites ELSE d
    /\ UNCHANGED <<env, call, backend, prev>>

\* the connection fails under the request the operation waits on
ResourceConnectionFails ==
    /\ outcome.kind = "pending"
    /\ LET s == Resume(call, sites, wire,
                       [kind |-> "raise", type |-> "ConnectionError"])
       IN  /\ outcome' = s.outcome
           /\ wire' = s.wire
    /\ UNCHANGED <<env, sites, call, replies, backend, prev>>

ResourceNext ==
    \/ GetSiteSettings
    \/ GetSiteInfo
    \/ GetSiteStats
    \/ ResourceResponds
    \/ ResourceConnectionFails
    \/ Finish

SpecResources == ResourceInit /\ [][ResourceNext]_vars

\* ------------------------------------------------------------------------
\* The tool specification: the tools that build a query or a body with
\* optional keys, called with each optional argument absent (None), present
\* and falsy, or present and truthy, on the one configured site A

ToolEnv == EnvOf({<<OtherKey, <<"/">>>>} \cup CompleteTriple(nA, 0))

OptStr == {PyNone, PyStr(<<>>), PyStr(<<"e">>)}
OptInt == {PyNone, PyInt(0), PyInt(5)}
OptList == {PyNone, PyList(<<>>), PyList(<<PyInt(1)>>)}
Bools == {PyBool(FALSE), PyBool(TRUE)}
Title == PyStr(<<"T">>)
Content == PyStr(<<"c">>)
Draft == PyStr(<<"d", "r", "a", "f", "t">>)

ToolInit ==
    /\ env = ToolEnv
    /\ sites = <<>>
    /\ call = NoCall
    /\ outcome = NoOutcome
    /\ wire = <<>>
    /\ replies = <<>>
    /\ backend = <<>>
    /\ prev = NoPrev

\* the tool call `c` starts: the registry `d` is loaded and the tool's
\* `return make_wp_request(...)` has sent its request or raised its error, `r`
Invoke(c, d, r) ==
    /\ Idle
    /\ sites' = d
    /\ call' = c
    /\ outcome' = Started(r).outcome
    /\ wire' = Started(r).wire
    /\ UNCHANGED <<env, replies, backend, prev>>

CreatePost ==
    \E order \in Orders(site_names(env)), excerpt \in OptStr, cats \in OptList,
       tgs \in OptList :
        LET d == load_wordpress_sites(env, order)
            r == create_post(d, na, Title, Content, Draft, excerpt, cats, tgs)
        IN  Invoke([op |-> "create_post", site_name |-> na, title |-> Title,
                    content |-> Content, status |-> Draft, excerpt |-> excerpt,
                    categories |-> cats, tags |-> tgs], d, r)

UpdatePost ==
    \E order \in Orders(site_names(env)), title \in OptStr,
       content \in {PyNone, Content}, status \in {PyNone, Draft},
       excerpt \in OptStr, cats \in OptList, tgs \in {PyNone, PyList(<<>>)} :
        LET d == load_wordpress_sites(env, order)
            r == update_post(d, na, PyInt(7), title, content, status,
                                   excerpt, cats, tgs)
        IN  Invoke([op |-> "update_post", site_name |-> na, post_id |-> PyInt(7),
                    title |-> title, content |-> content, status |-> status,
                    excerpt |-> excerpt, categories |-> cats, tags |-> tgs], d, r)

DeletePost ==
    \E order \in Orders(site_names(env)), force \in Bools :
        LET d == load_wordpress_sites(env, order)
            r == delete_post(d, na, PyInt(7), force)
        IN  Invoke([op |-> "delete_post", site_name |-> na, post_id |-> PyInt(7),
                    force |-> force], d, r)

CreatePage ==
    \E order \in Orders(site_names(env)), parent \in OptInt :
        LET d == load_wordpress_sites(env, order)
            r == create_page(d, na, Title, Content, Draft, parent)
        IN  Invoke([op |-> "create_page", site_name |-> na, title |-> Title,
                    content |-> Content, status |-> Draft, parent |-> parent], d, r)

CreateCategory ==
    \E order \in Orders(site_names(env)), description \in OptStr, slug \in OptStr,
       parent \in OptInt :
        LET d == load_wordpress_sites(env, order)
            r == create_category(d, na, Title, description, slug, parent)
        IN  Invoke([op |-> "create_category", site_name |-> na, name |-> Title,
                    description |-> description, slug |-> slug,
                    parent |-> parent], d, r)

GetComments ==
    \E order \in Orders(site_names(env)), post_id \in OptInt :
        LET d == load_wordpress_sites(env, order)
            r == get_comments(d, na, post_id, PyInt(10))
        IN  Invoke([op |-> "get_comments", site_name |-> na, post_id |-> post_id,
                    count |-> PyInt(10)], d, r)

DeleteUser ==
    \E order \in Orders(site_names(env)), reassign \in OptInt, force \in Bools :
        LET d == load_wordpress_sites(env, order)
            r == delete_user(d, na, PyInt(3), reassign, force)
        IN  Invoke([op |-> "delete_user", site_name |-> na, user_id |-> PyInt(3),
                    reassign |-> reassign, force |-> force], d, r)

CreateComment ==
    \E order \in Orders(site_names(env)), author_name \in OptStr,
       author_email \in OptStr, parent \in OptInt :
        LET d == load_wordpress_sites(env, order)
            r == create_comment(d, na, PyInt(7), Content, author_name,
                                      author_email, parent)
        IN  Invoke([op |-> "create_comment", site_name |-> na,
                    post_id |-> PyInt(7), content |-> Content,
                    author_name |-> author_name, author_email |-> author_email,
                    parent |-> parent], d, r)

ToolNext ==
    \/ CreatePost
    \/ UpdatePost
    \/ DeletePost
    \/ CreatePage
    \/ CreateCategory
    \/ GetComments
    \/ DeleteUser
    \/ CreateComment
    \/ Respond
    \/ ConnectionFails
    \/ Finish

SpecTools == ToolInit /\ [][ToolNext]_vars

\* ------------------------------------------------------------------------
\* The summary specification: get_posts_summary on the configured site A,
\* the backend answering with posts whose title, id and embedded author and
\* terms are each absent, empty or present

MaxCategories == 2
MaxPosts == 2

\* the sequences over S of length 0..n
SeqsUpTo(S, n) == UNION {[1..k -> S] : k \in 0..n}

\* no key, or `key` with a value of S
Optional(key, S) == {<<>>} \cup {key :> v : v \in S}

Cat1 == PyDict([id |-> PyInt(1), name |-> PyStr(<<"x">>)])
Cat2 == PyDict([id |-> PyInt(2), name |-> PyStr(<<"y">>)])
Tag1 == PyDict([id |-> PyInt(4), name |-> PyStr(<<"t">>)])
Nameless == PyDict([id |-> PyInt(3)])

AuthorArrays ==
    { PyList(<<>>),
      PyList(<<PyDict([name |-> PyStr(<<"n">>)])>>),
      PyList(<<PyDict([code |-> PyStr(<<"e">>)])>>) }

TermArrays ==
    {PyList(<<>>)}
        \cup {PyList(<<PyList(c)>>) : c \in SeqsUpTo({Cat1, Cat2}, MaxCategories)}
        \cup { PyList(<<PyList(<<Cat1>>), PyList(<<Tag1>>)>>),
               PyList(<<PyList(<<Nameless>>)>>) }

Embeddeds ==
    { PyDict(a @@ t) : a \in Optional("author", AuthorArrays),
                       t \in Optional("wp:term", TermArrays) }

Titles == {PyNone, EmptyDict, PyDict([rendered |-> PyStr(<<"T">>)])}

PostFields ==
    [date |-> PyStr(<<"d">>), link |-> PyStr(<<"l">>), status |-> PyStr(Publish)]

Posts ==
    { PyDict(i @@ t @@ e @@ PostFields) :
        i \in Optional("id", {PyInt(1)}),
        t \in Optional("title", Titles),
        e \in Optional("_embedded", Embeddeds) }

\* the posts that the longer responses are made of
SamplePosts ==
    { PyDict(("id" :> PyInt(1)) @@ PostFields),
      PyDict(("id" :> PyInt(2)) @@ ("title" :> PyDict([rendered |-> PyStr(<<"T">>)]))
                 @@ ("_embedded" :> PyDict(("author" :> PyList(<<PyDict([name |-> PyStr(<<"n">>)])>>))
                                               @@ ("wp:term" :> PyList(<<PyList(<<Cat2, Cat1>>)>>))))
                 @@ PostFields),
      PyDict(("_embedded" :> PyDict("wp:term" :> PyList(<<PyList(<<Nameless>>)>>)))
                 @@ PostFields) }

PostLists ==
    {PyList(<<p>>) : p \in Posts}
        \cup {PyList(ps) : ps \in SeqsUpTo(SamplePosts, MaxPosts)}

SummaryStatuses == {200, 404}

SummaryInit ==
    /\ env = ToolEnv
    /\ sites = <<>>
    /\ call = NoCall
    /\ outcome = NoOutcome
    /\ wire = <<>>
    /\ replies = <<>>
    /\ backend = <<>>
    /\ prev = NoPrev

\* the tool get_posts_summary is called
GetPostsSummary ==
    /\ Idle
    /\ \E order \in Orders(site_names(env)), site_name \in ResourceSiteNames,
          count \in {PyInt(10)}, status \in {PyStr(Publish), Draft} :
          LET d == load_wordpress_sites(env, order)
              s == get_posts_summary(d, site_name, count, status, <<>>, NoOutcome)
          IN  /\ sites' = d
              /\ call' = [op |-> "get_posts_summary", site_name |-> site_name,
                          count |-> count, status |-> status]
              /\ outcome' = s.outcome
              /\ wire' = s.wire
    /\ UNCHANGED <<env, replies, backend, prev>>

\* the backend answers with a list of posts, and get_posts_summary goes on
SummaryResponds ==
    /\ outcome.kind = "pending"
    /\ \E status \in SummaryStatuses, body \in PostLists :
          LET s == Resume(call, sites, wire, HandleResponse(status, body))
          IN  /\ replies' = Append(replies, [status |-> status, body |-> body])
              /\ outcome' = s.outcome
              /\ wire' = s.wire
    /\ UNCHANGED <<env, sites, call, backend, prev>>

SummaryNext == GetPostsSummary \/ SummaryResponds \/ Finish

SpecSummary == SummaryInit /\ [][SummaryNext]_vars

\* ------------------------------------------------------------------------
\* The configuration specification: between two calls the environment gains
\* or loses one of the keys of the sites A and B; get_site and the tool
\* get_site_settings are called in between

ConfigKeys ==
    UNION { {SITE_ \o n \o _URL, SITE_ \o n \o _USER, SITE_ \o n \o _APP_PASSWORD} :
              n \in DispatchNames }

\* the value the key is given
ConfigValue(key) ==
    LET n == CHOOSE n \in DispatchNames : startswith(key, SITE_ \o n \o <<"_">>)
    IN  IF contains(key, _URL) THEN UrlFor(n)
        ELSE IF contains(key, _USER) THEN UserFor(n)
        ELSE PasswordFor(n)

ConfigLookupNames == {na, <<"b">>}

ConfigInit ==
    /\ env = ImportEnv
    /\ sites = <<>>
    /\ call = NoCall
    /\ outcome = NoOutcome
    /\ wire = <<>>
    /\ replies = <<>>
    /\ backend = <<>>
    /\ prev = NoPrev

\* os.environ[key] = value
Setenv ==
    /\ Idle
    /\ \E key \in ConfigKeys \ DOMAIN env :
          env' = [k \in DOMAIN env \cup {key} |->
                     IF k = key THEN ConfigValue(key) ELSE env[k]]
    /\ UNCHANGED <<sites, call, outcome, wire, replies, backend, prev>>

\* del os.environ[key]
Unsetenv ==
    /\ Idle
    /\ \E key \in ConfigKeys \cap DOMAIN env :
          env' = [k \in DOMAIN env \ {key} |-> env[k]]
    /\ UNCHANGED <<sites, call, outcome, wire, replies, backend, prev>>

\* get_site(site_name) under the configuration of the moment
ConfigGetSite ==
    /\ Idle
    /\ \E order \in Orders(site_names(env)), site_name \in ConfigLookupNames :
          /\ sites' = load_wordpress_sites(env, order)
          /\ outcome' = get_site(sites', site_name)
          /\ call' = [op |-> "get_site", site_name |-> site_name]
    /\ UNCHANGED <<env, wire, replies, backend, prev>>

\* the caller receives the value or the error; the call is remembered
FinishAndRemember ==
    /\ call # NoCall
    /\ outcome.kind \in {"return", "raise"}
    /\ prev' = [call |-> call, outcome |-> outcome]
    /\ call' = NoCall
    /\ outcome' = NoOutcome
    /\ sites' = <<>>
    /\ wire' = <<>>
    /\ replies' = <<>>
    /\ UNCHANGED <<env, backend>>

ConfigNext ==
    \/ Setenv
    \/ Unsetenv
    \/ ConfigGetSite
    \/ GetSiteSettings
    \/ ResourceResponds
    \/ ResourceConnectionFails
    \/ FinishAndRemember

SpecConfig == ConfigInit /\ [][ConfigNext]_vars

\* ------------------------------------------------------------------------
\* Claims about the site registry (specification SpecRegistry)

endswith(s, p) == Len(s) >= Len(p) /\ SubSeq(s, Len(s) - Len(p) + 1, Len(s)) = p

\* s.split(sep), sep non-empty
RECURSIVE split(_, _)
split(s, sep) ==
    IF ~contains(s, sep) THEN <<s>>
    ELSE LET i == CHOOSE i \in 1..(Len(s) - Len(sep) + 1) :
                     /\ SubSeq(s, i, i + Len(sep) - 1) = sep
                     /\ \A j \in 1..(i - 1) : SubSeq(s, j, j + Len(sep) - 1) # sep
         IN  <<SubSeq(s, 1, i - 1)>> \o split(SubSeq(s, i + Len(sep), Len(s)), sep)

Range(f) == {f[i] : i \in DOMAIN f}

\* the names <NAME> for which the configuration holds a key SITE_<NAME>_URL
ConfiguredNames(e) ==
    { SubSeq(k, Len(SITE_) + 1, Len(k) - Len(_URL)) :
        k \in { k \in DOMAIN e : /\ Len(k) >= Len(SITE_) + Len(_URL)
                                 /\ startswith(k, SITE_)
                                 /\ endswith(k, _URL) } }

\* the three keys of <NAME> are all present and non-empty
Complete(e, n) ==
    \A suffix \in {_URL, _USER, _APP_PASSWORD} :
        /\ SITE_ \o n \o suffix \in DOMAIN e
        /\ e[SITE_ \o n \o suffix] # <<>>

CompleteNames(e) == {n \in ConfiguredNames(e) : Complete(e, n)}

\* the Site that the triple of <NAME> describes
SiteOf(e, n) ==
    WordPressSite(lower(n), e[SITE_ \o n \o _URL], e[SITE_ \o n \o _USER],
                  e[SITE_ \o n \o _APP_PASSWORD])

Loaded == call.op = "load_wordpress_sites" /\ outcome.kind = "return"

\* C1: load_wordpress_sites returns exactly one Site for each name whose three
\* keys are all present and non-empty, and no Site for any other name.
C1_OneSitePerCompleteTriple ==
    Loaded =>
        /\ \A n \in CompleteNames(env) :
              Cardinality({i \in 1..Len(outcome.value) :
                              outcome.value[i].value = SiteOf(env, n)}) = 1
        /\ \A i \in 1..Len(outcome.value) :
              \E n \in CompleteNames(env) : outcome.value[i].value = SiteOf(env, n)
        /\ Len(outcome.value) = Cardinality(CompleteNames(env))

\* C2: in every registry returned by load_wordpress_sites each key is
\* non-empty, is lowercase, equals the name of the Site it maps to, and no two
\* keys are equal ignoring case.
C2_KeysNormalized ==
    Loaded =>
        \A i \in 1..Len(outcome.value) :
            /\ outcome.value[i].key # <<>>
            /\ outcome.value[i].key = lower(outcome.value[i].key)
            /\ outcome.value[i].key = outcome.value[i].value.name
            /\ \A j \in 1..Len(outcome.value) :
                  lower(outcome.value[i].key) = lower(outcome.value[j].key) => i = j

\* C3: get_site on an empty registry raises, and the message names the three
\* key suffixes _URL, _USER and _APP_PASSWORD.
C3_EmptyRegistryFails ==
    (call.op = "get_site" /\ sites = <<>>) =>
        /\ outcome.kind = "raise"
        /\ \A suffix \in {_URL, _USER, _APP_PASSWORD} :
              contains(outcome.message, suffix)

C3_Witness ==
    /\ call.op = "get_site"
    /\ sites = <<>>
    /\ CompleteNames(env) = {}
    /\ ConfiguredNames(env) # {}
    /\ outcome.kind = "raise"

\* the names listed after "Available sites: " in a not-found message
ListedNames(message, site_name) ==
    LET head == NotFoundHead \o site_name \o NotFoundMid
    IN  Range(split(SubSeq(message, Len(head) + 1, Len(message)), CommaSpace))

\* C4: get_site on a non-empty registry with a name that is no key raises, and
\* the names listed in the message are exactly the keys of the registry.
C4_UnknownNameListsKeys ==
    (call.op = "get_site" /\ sites # <<>> /\ ~HasKey(sites, call.site_name)) =>
        /\ outcome.kind = "raise"
        /\ startswith(outcome.message,
                      NotFoundHead \o call.site_name \o NotFoundMid)
        /\ ListedNames(outcome.message, call.site_name) = Range(DictKeys(sites))

C4_Witness ==
    /\ call.op = "get_site"
    /\ Len(sites) >= 2
    /\ ~HasKey(sites, call.site_name)
    /\ outcome.kind = "raise"

\* C5: get_site returns a configured site for every letter-casing of its name.
C5_CaseInsensitiveLookup ==
    (call.op = "get_site" /\ HasKey(sites, lower(call.site_name))) =>
        outcome = Return(DictGet(sites, lower(call.site_name)))

\* ------------------------------------------------------------------------
\* Claim about the credential encoder (specification SpecAuth)

TwoAuthCalls == call.op = "get_auth_headers" /\ prev.call.op = "get_auth_headers"

\* the two Sites are the same but for app_password
DifferOnlyInSecret(s1, s2) ==
    /\ s1.name = s2.name
    /\ s1.url = s2.url
    /\ s1.username = s2.username
    /\ s1.app_password # s2.app_password

\* C6: get_auth_headers returns exactly the two headers Authorization and
\* Content-Type, the same ones for the same Site; for two Sites that differ only
\* in the secret the Authorization values differ, and the Content-Type value and
\* the header names are the same.
C6_AuthHeaders ==
    TwoAuthCalls =>
        LET h1 == prev.outcome.value
            h2 == outcome.value
        IN  /\ DOMAIN h2 = {"Authorization", "Content-Type"}
            /\ Cardinality(DOMAIN h2) = 2
            /\ (prev.call.site = call.site => h1 = h2)
            /\ DifferOnlyInSecret(prev.call.site, call.site) =>
                  /\ h1["Authorization"] # h2["Authorization"]
                  /\ h1["Content-Type"] = h2["Content-Type"]
                  /\ DOMAIN h1 = DOMAIN h2

C6_Witness ==
    /\ TwoAuthCalls
    /\ DifferOnlyInSecret(prev.call.site, call.site)
    /\ Len(prev.call.site.app_password) # Len(call.site.app_password)
    /\ startswith(outcome.value["Authorization"], Basic_)

\* ------------------------------------------------------------------------
\* Claims about the request dispatcher (specification Spec)

\* make_wp_request was called with a site name the registry holds
Dispatched == call.op = "make_wp_request" /\ HasKey(sites, call.site_name)

\* C7: for method GET or DELETE, make_wp_request sends params as the query
\* string and sends no body, whatever data is.
C7_GetDeleteQueryOnly ==
    (Dispatched /\ call.method \in {GET, DELETE}) =>
        /\ Len(wire) = 1
        /\ wire[1].verb = call.method
        /\ wire[1].params = (IF call.params = PyNone THEN EmptyDict ELSE call.params)
        /\ wire[1].json = PyNone

C7_Witness ==
    /\ Dispatched
    /\ call.method = DELETE
    /\ call.data \notin {PyNone, EmptyDict}
    /\ call.params \notin {PyNone, EmptyDict}
    /\ Len(wire) = 1
    /\ outcome.kind = "return"

\* C8: for method POST, PUT or PATCH, make_wp_request sends data as the JSON
\* payload whenever data is not None, and params only when data is None.
C8_BodyIsDataWhenPresent ==
    (Dispatched /\ call.method \in {POST, PUT, PATCH}) =>
        /\ Len(wire) = 1
        /\ wire[1].json =
              ( IF call.data # PyNone THEN call.data
                ELSE IF call.params # PyNone THEN call.params
                ELSE EmptyDict )

SupportedMethods == {GET, POST, PUT, PATCH, DELETE}

\* C9, as claimed: for any method value other than GET, POST, PUT, PATCH or
\* DELETE, make_wp_request (on a site name that resolves) fails with the
\* unsupported-method error, and no HTTP request has been issued.
C9_AnyOtherMethodValueFails ==
    (Dispatched /\ call.method \notin SupportedMethods) =>
        /\ outcome.kind = "raise"
        /\ outcome.type = "ValueError"
        /\ startswith(outcome.message, UnsupportedMessage)
        /\ wire = <<>>

\* C9, amended: for any method whose upper-case form is other than GET, POST,
\* PUT, PATCH or DELETE, make_wp_request issues no HTTP request and fails: with
\* the unsupported-method error when the site name resolves, and with the error
\* of get_site when it does not.
C9_UnsupportedMethodFails ==
    (call.op = "make_wp_request" /\ upper(call.method) \notin SupportedMethods) =>
        /\ wire = <<>>
        /\ outcome.kind = "raise"
        /\ outcome.type = "ValueError"
        /\ HasKey(sites, call.site_name) =>
              outcome.message = UnsupportedMessage \o upper(call.method)
        /\ ~HasKey(sites, call.site_name) =>
              ~startswith(outcome.message, UnsupportedMessage)

C9_Witness ==
    /\ Dispatched
    /\ upper(call.method) \notin SupportedMethods
    /\ outcome.kind = "raise"
    /\ startswith(outcome.message, UnsupportedMessage)

WpJsonV2Slash ==
    <<"/", "w", "p", "-", "j", "s", "o", "n", "/", "w", "p", "/", "v", "2", "/">>

\* u without its last character when that is a slash
OneSlashStripped(u) ==
    IF Len(u) > 0 /\ u[Len(u)] = "/" THEN SubSeq(u, 1, Len(u) - 1) ELSE u

\* the prefix of u that does not end in a slash and is followed by slashes only
AllSlashesStripped(u) ==
    CHOOSE b \in {SubSeq(u, 1, k) : k \in 0..Len(u)} :
        /\ \A i \in (Len(b) + 1)..Len(u) : u[i] = "/"
        /\ (b = <<>> \/ b[Len(b)] # "/")

\* C10, as claimed: the URL requested is the site's base URL with its trailing
\* slash stripped, then "/wp-json/wp/v2/", then the endpoint.
C10_UrlStripsTheTrailingSlash ==
    (Dispatched /\ wire # <<>>) =>
        wire[1].url = OneSlashStripped(DictGet(sites, call.site_name).url)
                          \o WpJsonV2Slash \o call.endpoint

\* C10, amended: the URL requested is the site's base URL with all of its
\* trailing slashes stripped, then "/wp-json/wp/v2/", then the endpoint.
C10_UrlStripsAllTrailingSlashes ==
    (call.op = "make_wp_request" /\ wire # <<>>) =>
        /\ HasKey(sites, call.site_name)
        /\ wire[1].url = AllSlashesStripped(DictGet(sites, call.site_name).url)
                             \o WpJsonV2Slash \o call.endpoint

C10_Witness ==
    /\ Dispatched
    /\ Len(wire) = 1
    /\ endswith(DictGet(sites, call.site_name).url, <<"/", "/">>)
    /\ upper(call.method) \in SupportedMethods
    /\ outcome.kind = "return"

\* C11: whenever the backend responds with a status outside 200..299,
\* make_wp_request fails with the HTTP error carrying that status, and it
\* returns a result only for the statuses 200..299.
C11_NonSuccessStatusFails ==
    (call.op = "make_wp_request" /\ replies # <<>>) =>
        LET status == replies[1].status
        IN  /\ (status < 200 \/ status > 299) =>
                  outcome = [kind |-> "raise", type |-> "HTTPError",
                             status |-> status]
            /\ outcome.kind = "return" => (status >= 200 /\ status <= 299)

\* C12: every Dispatcher call eventually completes: a call that waits on the
\* backend eventually has a value or an error, even when the backend never
\* responds.
C12_EveryCallCompletes ==
    (outcome.kind = "pending") ~> (outcome.kind \in {"return", "raise"})

\* ------------------------------------------------------------------------
\* Claims about the resources (specification SpecResources)

\* the requests of the operation whose response had an error status
FailedCalls == {i \in DOMAIN replies : replies[i].status >= 400}

\* C13: when exactly one of the five requests of get_site_stats fails with an
\* error status, the other four are still issued and the operation returns
\* its report, not an error.
C13_OneFailureDoesNotAbort ==
    ( /\ call.op = "get_site_stats"
      /\ outcome.kind = "return"
      /\ Cardinality(FailedCalls) = 1 ) =>
        /\ Len(wire) = Len(StatsCalls)
        /\ Len(replies) = Len(StatsCalls)
        /\ ~startswith(outcome.value.v, ErrorFetchingSiteStats)

\* the operation in progress has ended
Ended == call # NoCall /\ outcome.kind \in {"return", "raise"}

\* C18: for every tool or resource operation, when the site resolution or a
\* request of the operation fails, the operation ends in that same error and
\* never in a normal return value.
C18_ErrorsPropagate ==
    (Ended /\ call.op \in {"get_site_settings", "get_site_info", "get_site_stats"}) =>
        /\ get_site(sites, call.site_name).kind = "raise" =>
              outcome = get_site(sites, call.site_name)
        /\ \A i \in DOMAIN replies :
              LET r == HandleResponse(replies[i].status, replies[i].body)
              IN  r.kind = "raise" => outcome = r

\* ------------------------------------------------------------------------
\* Claims about the tool adapters (specification SpecTools)

\* the optional keys of the tool call c, each with the argument it comes from
OptionalKeys(c) ==
    CASE c.op \in {"create_post", "update_post"} ->
            {<<"excerpt", c.excerpt>>, <<"categories", c.categories>>,
             <<"tags", c.tags>>}
      [] c.op \in {"delete_post"} -> {<<"force", c.force>>}
      [] c.op = "create_page" -> {<<"parent", c.parent>>}
      [] c.op = "create_category" ->
            {<<"description", c.description>>, <<"slug", c.slug>>,
             <<"parent", c.parent>>}
      [] c.op = "get_comments" -> {<<"post", c.post_id>>}
      [] c.op = "delete_user" -> {<<"reassign", c.reassign>>, <<"force", c.force>>}
      [] c.op = "create_comment" ->
            {<<"author_name", c.author_name>>, <<"author_email", c.author_email>>,
             <<"parent", c.parent>>}
      [] OTHER -> {}

\* the query or the body of the first request of the call
SentDict == IF wire[1].json # PyNone THEN wire[1].json.v ELSE wire[1].params.v

\* C14: every tool adapter includes an optional key in the query or body it
\* builds if and only if the corresponding argument is not None, so that a
\* present but falsy value (0, False, the empty string, the empty list) is
\* sent.
C14_OptionalKeySentIffNotNone ==
    (wire # <<>>) =>
        \A p \in OptionalKeys(call) :
            /\ (p[1] \in DOMAIN SentDict) <=> (p[2] # PyNone)
            /\ p[1] \in DOMAIN SentDict => SentDict[p[1]] = p[2]

\* ------------------------------------------------------------------------
\* Claims about the response shaper (specification SpecSummary)

\* get_posts_summary has received a list of posts from the backend
Summarized ==
    call.op = "get_posts_summary" /\ replies # <<>> /\ replies[1].status = 200

\* the posts received, and the summaries returned
ReplyPosts == replies[1].body.v
ReturnedSummaries == outcome.value.v

Embedded(post) == post.v["_embedded"]
NoAuthorData(post) ==
    \/ ~Has(post, "_embedded")
    \/ ~Has(Embedded(post), "author")
    \/ Len(Embedded(post).v["author"].v) = 0
NoTermData(post) ==
    \/ ~Has(post, "_embedded")
    \/ ~Has(Embedded(post), "wp:term")
    \/ Len(Embedded(post).v["wp:term"].v) = 0
NoTitleData(post) ==
    ~Has(post, "title") \/ (post.v["title"].t = "dict" /\ ~Has(post.v["title"], "rendered"))

\* the first embedded term array of a post that has term data
EmbeddedCategories(post) == Embedded(post).v["wp:term"].v[1].v

\* the parts of the post that are present have the shape of the WordPress
\* REST resources: the title is an object, every embedded category has a name
InRestShape(post) ==
    /\ Has(post, "title") => post.v["title"].t = "dict"
    /\ ~NoTermData(post) =>
          \A j \in 1..Len(EmbeddedCategories(post)) :
              Has(EmbeddedCategories(post)[j], "name")

\* C15: for every post that has no _embedded field, the summary that
\* get_posts_summary returns for it has the author "Unknown", no categories,
\* and the id, date, link and status of the post (None for one the post does
\* not have).
C15_NoEmbeddedGivesDefaults ==
    (Summarized /\ outcome.kind = "return") =>
        /\ Len(ReturnedSummaries) = Len(ReplyPosts)
        /\ \A i \in 1..Len(ReplyPosts) :
              ~Has(ReplyPosts[i], "_embedded") =>
                  LET post == ReplyPosts[i]
                      summary == ReturnedSummaries[i].v
                  IN  /\ summary.author = PyStr(Unknown)
                      /\ summary.categories = PyList(<<>>)
                      /\ summary.id = Get(post, "id", PyNone)
                      /\ summary.date = Get(post, "date", PyNone)
                      /\ summary.link = Get(post, "link", PyNone)
                      /\ summary.status = Get(post, "status", PyNone)

C15_Witness ==
    /\ Summarized
    /\ outcome.kind = "return"
    /\ Len(ReplyPosts) = 2
    /\ ~Has(ReplyPosts[1], "_embedded")
    /\ Has(ReplyPosts[2], "_embedded")
    /\ ReturnedSummaries[1].v.id = PyInt(1)
    /\ ReturnedSummaries[1].v.author = PyStr(Unknown)

\* C16: get_posts_summary does not fail because of missing or empty embedded
\* data or a missing title: when the backend answers with posts in the REST
\* shape, it returns one summary per post, with the author "Unknown" for a
\* post whose _embedded or embedded author array is absent or empty, no
\* categories for one whose _embedded or wp:term array is absent or empty,
\* and the title "No title" for one whose title or title.rendered is absent.
C16_MissingDataGivesDefaults ==
    (Summarized /\ \A i \in 1..Len(ReplyPosts) : InRestShape(ReplyPosts[i])) =>
        /\ outcome.kind = "return"
        /\ Len(ReturnedSummaries) = Len(ReplyPosts)
        /\ \A i \in 1..Len(ReplyPosts) :
              LET post == ReplyPosts[i]
                  summary == ReturnedSummaries[i].v
              IN  /\ NoAuthorData(post) => summary.author = PyStr(Unknown)
                  /\ NoTermData(post) => summary.categories = PyList(<<>>)
                  /\ NoTitleData(post) => summary.title = PyStr(NoTitle)

C16_Witness ==
    /\ Summarized
    /\ outcome.kind = "return"
    /\ Len(ReplyPosts) = 1
    /\ Has(ReplyPosts[1], "_embedded")
    /\ Has(Embedded(ReplyPosts[1]), "author")
    /\ ~Has(Embedded(ReplyPosts[1]), "wp:term")
    /\ NoAuthorData(ReplyPosts[1])
    /\ Has(ReplyPosts[1], "title")
    /\ NoTitleData(ReplyPosts[1])
    /\ ReturnedSummaries[1].v.title = PyStr(NoTitle)

\* C17: for every post with embedded categories, the categories of its
\* summary are the names of the embedded categories in the order the backend
\* returned them, duplicates kept.
C17_CategoriesKeepOrderAndDuplicates ==
    (Summarized /\ outcome.kind = "return") =>
        \A i \in 1..Len(ReplyPosts) :
            ~NoTermData(ReplyPosts[i]) =>
                LET cats == EmbeddedCategories(ReplyPosts[i])
                    names == ReturnedSummaries[i].v.categories.v
                IN  /\ Len(names) = Len(cats)
                    /\ \A j \in 1..Len(cats) : names[j] = cats[j].v["name"]

C17_Witness ==
    /\ Summarized
    /\ outcome.kind = "return"
    /\ Len(ReplyPosts) = 1
    /\ ~NoTermData(ReplyPosts[1])
    /\ EmbeddedCategories(ReplyPosts[1]) = <<Cat2, Cat2>>
    /\ ReturnedSummaries[1].v.categories = PyList(<<PyStr(<<"y">>), PyStr(<<"y">>)>>)

\* ------------------------------------------------------------------------
\* Claims about configuration changes (specification SpecConfig)

\* the site names that the environment of the moment configures completely
ConfiguredNow(n) ==
    {SITE_ \o n \o _URL, SITE_ \o n \o _USER, SITE_ \o n \o _APP_PASSWORD}
        \subseteq DOMAIN env
KnownNow == {lower(n) : n \in {m \in DispatchNames : ConfiguredNow(m)}}

\* the call in progress resolved its site name against the environment of
\* the moment
ResolvedAgainstEnv ==
    /\ call.op = "get_site" =>
          /\ outcome.kind = "return" <=> call.site_name \in KnownNow
          /\ outcome.kind = "return" =>
                LET n == upper(call.site_name)
                IN  outcome.value =
                        WordPressSite(call.site_name, env[SITE_ \o n \o _URL],
                                      env[SITE_ \o n \o _USER],
                                      env[SITE_ \o n \o _APP_PASSWORD])
          /\ (outcome.kind = "raise" /\ KnownNow # {}) =>
                \A k \in KnownNow : contains(outcome.message, k)
    /\ call.op = "get_site_settings" =>
          /\ wire # <<>> <=> call.site_name \in KnownNow
          /\ wire # <<>> =>
                startswith(wire[1].url, env[SITE_ \o upper(call.site_name) \o _URL])

\* C19: the registry is recomputed on every call: each get_site or tool call
\* resolves its site name against the environment as it is at the time of
\* the call, whatever calls and changes came before, and no step of a call
\* changes the environment.
C19_ResolvedAgainstCurrentConfig ==
    /\ []ResolvedAgainstEnv
    /\ [][(~Idle \/ call' # NoCall) => env' = env]_vars

\* a site that the call before did not find, since configured, is found
C19_Witness ==
    /\ prev.call = [op |-> "get_site", site_name |-> na]
    /\ prev.outcome.kind = "raise"
    /\ prev.outcome.message = NotFoundHead \o na \o NotFoundMid \o <<"b">>
    /\ call = [op |-> "get_site", site_name |-> na]
    /\ outcome.kind = "return"

\* ------------------------------------------------------------------------
\* The round-trip specification: create_post and get_post_by_id on the
\* configured site A, against a backend that stores the posts it is sent and
\* serves them by id

MaxStored == 2

DigitValue(c) == CHOOSE i \in 0..9 : DigitChars[i + 1] = c

\* the number written by the digits s, or -1 when s is no number
RECURSIVE ParseNat(_)
ParseNat(s) ==
    IF s = <<>> \/ \E i \in 1..Len(s) : \A j \in 1..10 : DigitChars[j] # s[i]
    THEN -1
    ELSE IF Len(s) = 1 THEN DigitValue(s[1])
    ELSE 10 * ParseNat(SubSeq(s, 1, Len(s) - 1)) + DigitValue(s[Len(s)])

\* the post resource the backend serves for the payload it stored under id
StoredPost(id, payload) ==
    PyDict([id |-> PyInt(id),
            title |-> PyDict([rendered |-> payload.title]),
            status |-> payload.status])

NotFoundBody == PyDict([code |-> PyStr(<<"4", "0", "4">>)])

\* the backend's answer to `request`, and what it stores afterwards
BackendServe(store, request) ==
    LET endpoint == split(request.url, WpJsonV2Slash)[2]
        id == ParseNat(SubSeq(endpoint, Len(PostsEndpoint) + 2, Len(endpoint)))
    IN  IF request.verb = POST /\ endpoint = PostsEndpoint
        THEN [status |-> 201,
              body |-> StoredPost(Len(store) + 1, request.json.v),
              store |-> Append(store, request.json.v)]
        ELSE IF /\ request.verb = GET
                /\ startswith(endpoint, PostsEndpoint \o <<"/">>)
                /\ id \in 1..Len(store)
        THEN [status |-> 200, body |-> StoredPost(id, store[id]), store |-> store]
        ELSE [status |-> 404, body |-> NotFoundBody, store |-> store]

RoundTripTitles == {PyStr(<<"T">>), PyStr(<<"U">>), PyStr(<<>>)}

RoundTripInit ==
    /\ env = ToolEnv
    /\ sites = <<>>
    /\ call = NoCall
    /\ outcome = NoOutcome
    /\ wire = <<>>
    /\ replies = <<>>
    /\ backend = <<>>
    /\ prev = NoPrev

\* create_post with a title, the optional arguments left out
RoundTripCreatePost ==
    /\ Len(backend) < MaxStored
    /\ \E order \in Orders(site_names(env)), title \in RoundTripTitles :
          LET d == load_wordpress_sites(env, order)
              r == create_post(d, na, title, Content, Draft, PyNone, PyNone,
                                     PyNone)
          IN  Invoke([op |-> "create_post", site_name |-> na, title |-> title,
                      content |-> Content, status |-> Draft, excerpt |-> PyNone,
                      categories |-> PyNone, tags |-> PyNone], d, r)

\* get_post_by_id with the id of a post or with the id after the last
RoundTripGetPostById ==
    \E order \in Orders(site_names(env)), id \in 1..(Len(backend) + 1) :
        LET d == load_wordpress_sites(env, order)
            r == get_post_by_id(d, na, PyInt(id))
        IN  Invoke([op |-> "get_post_by_id", site_name |-> na,
                    post_id |-> PyInt(id)], d, r)

\* the backend answers the request the tool waits on
BackendResponds ==
    /\ outcome.kind = "pending"
    /\ LET a == BackendServe(backend, wire[Len(wire)])
       IN  /\ replies' = Append(replies, [status |-> a.status, body |-> a.body])
           /\ backend' = a.store
           /\ outcome' = HandleResponse(a.status, a.body)
    /\ UNCHANGED <<env, sites, call, wire, prev>>

RoundTripNext ==
    \/ RoundTripCreatePost
    \/ RoundTripGetPostById
    \/ BackendResponds
    \/ FinishAndRemember

SpecRoundTrip == RoundTripInit /\ [][RoundTripNext]_vars

\* ------------------------------------------------------------------------
\* Claims about the round trip (specification SpecRoundTrip)

\* get_post_by_id is called with the id that the create_post before it
\* returned, and has ended
FetchedTheCreatedPost ==
    /\ prev.call.op = "create_post"
    /\ prev.outcome.kind = "return"
    /\ call.op = "get_post_by_id"
    /\ call.post_id = prev.outcome.value.v.id
    /\ outcome.kind \in {"return", "raise"}

\* C20: create_post with title T sends a POST to "posts" whose payload
\* carries T, and get_post_by_id with the id returned sends a GET to
\* "posts/{id}" and returns a payload whose title.rendered is T.
C20_RoundTrip ==
    /\ (call.op = "create_post" /\ wire # <<>>) =>
          /\ wire[1].verb = POST
          /\ endswith(wire[1].url, WpJsonV2Slash \o PostsEndpoint)
          /\ wire[1].json.v.title = call.title
    /\ FetchedTheCreatedPost =>
          /\ wire[1].verb = GET
          /\ endswith(wire[1].url,
                      WpJsonV2Slash \o PostsEndpoint \o <<"/">>
                          \o str_int(call.post_id.v))
          /\ outcome.kind = "return"
          /\ outcome.value.v.title.v.rendered = prev.call.title

\* the second post created, titled otherwise than the first, is fetched
C20_Witness ==
    /\ FetchedTheCreatedPost
    /\ call.post_id = PyInt(2)
    /\ Len(backend) = 2
    /\ backend[1].title # backend[2].title
    /\ outcome.kind = "return"
    /\ outcome.value.v.title.v.rendered = PyStr(<<"U">>)

\* ------------------------------------------------------------------------
\* The secrets specification: the listings and get_site are called on
\* configurations of the sites A and B; between two calls the application
\* password of a site is given another value, the empty one included

SecretValues == {<<>>, <<"p">>, <<"q">>}

SecretKeys == {SITE_ \o n \o _APP_PASSWORD : n \in DispatchNames}

SecretEnvs ==
    { EnvOf({<<OtherKey, <<"/">>>>}
            \cup UNION {IF n \in present THEN CompleteTriple(n, 0) ELSE {} :
                          n \in DispatchNames}) :
        present \in SUBSET DispatchNames }

SecretsInit ==
    /\ env \in SecretEnvs
    /\ sites = <<>>
    /\ call = NoCall
    /\ outcome = NoOutcome
    /\ wire = <<>>
    /\ replies = <<>>
    /\ backend = <<>>
    /\ prev = [call |-> NoCall, outcome |-> NoOutcome, env |-> env]

\* os.environ[key] = value for the application password of a configured site
ChangeSecret ==
    /\ Idle
    /\ \E key \in SecretKeys \cap DOMAIN env :
          \E value \in SecretValues \ {env[key]} :
              env' = [env EXCEPT ![key] = value]
    /\ UNCHANGED <<sites, call, outcome, wire, replies, backend, prev>>

\* the resource sites://list is read; `order` is the iteration order of the
\* set of names
ListSites ==
    /\ Idle
    /\ \E order \in Orders(site_names(env)) :
          /\ sites' = load_wordpress_sites(env, order)
          /\ outcome' = list_sites(sites')
          /\ call' = [op |-> "list_sites", order |-> order]
    /\ UNCHANGED <<env, wire, replies, backend, prev>>

\* the tool get_available_sites is called
GetAvailableSites ==
    /\ Idle
    /\ \E order \in Orders(site_names(env)) :
          /\ sites' = load_wordpress_sites(env, order)
          /\ outcome' = get_available_sites(sites')
          /\ call' = [op |-> "get_available_sites", order |-> order]
    /\ UNCHANGED <<env, wire, replies, backend, prev>>

\* get_site(site_name) is called
SecretsGetSite ==
    /\ Idle
    /\ \E order \in Orders(site_names(env)), site_name \in {na, <<"c">>} :
          /\ sites' = load_wordpress_sites(env, order)
          /\ outcome' = get_site(sites', site_name)
          /\ call' = [op |-> "get_site", site_name |-> site_name, order |-> order]
    /\ UNCHANGED <<env, wire, replies, backend, prev>>

\* the caller receives the value or the error; the call is remembered with
\* the configuration it was made under
FinishAndRememberEnv ==
    /\ call # NoCall
    /\ outcome.kind \in {"return", "raise"}
    /\ prev' = [call |-> call, outcome |-> outcome, env |-> env]
    /\ call' = NoCall
    /\ outcome' = NoOutcome
    /\ sites' = <<>>
    /\ wire' = <<>>
    /\ replies' = <<>>
    /\ UNCHANGED <<env, backend>>

SecretsNext ==
    \/ ChangeSecret
    \/ ListSites
    \/ GetAvailableSites
    \/ SecretsGetSite
    \/ FinishAndRememberEnv

SpecSecrets == SecretsInit /\ [][SecretsNext]_vars

\* ------------------------------------------------------------------------
\* Claims about the secrets specification

\* two configurations with the same keys and the same values but for the
\* application passwords
SameButSecrets(e1, e2) ==
    /\ DOMAIN e1 = DOMAIN e2
    /\ \A k \in DOMAIN e1 \ SecretKeys : e1[k] = e2[k]

SecretsNonEmpty(e) == \A k \in SecretKeys \cap DOMAIN e : e[k] # <<>>

\* what the caller is shown: the listing, or the message of the error of
\* get_site (the site get_site returns stays inside the server)
Shown(c, o) ==
    IF c.op = "get_site" /\ o.kind = "return" THEN [kind |-> "site"] ELSE o

\* the call that just ended repeats the previous one, on a configuration
\* that differs from the previous one in secrets only
SameCallOtherSecrets ==
    /\ call # NoCall
    /\ outcome.kind \in {"return", "raise"}
    /\ prev.call = call
    /\ SameButSecrets(prev.env, env)

\* C21 as stated: the listings of get_available_sites and sites://list and
\* the messages of the errors of get_site are the same on two
\* configurations that differ only in application passwords.
C21_OutputsIndependentOfSecrets ==
    SameCallOtherSecrets => Shown(prev.call, prev.outcome) = Shown(call, outcome)

\* C21 amended: the listings of get_available_sites and sites://list and
\* the messages of the errors of get_site are the same on two
\* configurations that differ only in application passwords, all of them
\* non-empty.
C21_OutputsIndependentOfNonEmptySecrets ==
    (/\ SameCallOtherSecrets
     /\ SecretsNonEmpty(prev.env)
     /\ SecretsNonEmpty(env))
        => Shown(prev.call, prev.outcome) = Shown(call, outcome)

C21_Witness ==
    /\ SameCallOtherSecrets
    /\ SecretsNonEmpty(prev.env)
    /\ SecretsNonEmpty(env)
    /\ prev.env # env
    /\ call.op = "get_available_sites"
    /\ Len(sites) = 2

\* ------------------------------------------------------------------------
\* Further claims about the request dispatcher (specification Spec)

\* make_wp_request was called with a site name the registry does not hold
Undispatched == call.op = "make_wp_request" /\ ~HasKey(sites, call.site_name)

\* C22: a call of make_wp_request whose site name is not in the registry, or
\* whose registry is empty, fails with the error of get_site, and no HTTP
\* request is sent and no response is received during the call, whatever
\* the method, endpoint, params and data are.
C22_ResolutionPrecedesIO ==
    Undispatched =>
        /\ wire = <<>>
        /\ replies = <<>>
        /\ outcome.kind = "raise"
        /\ outcome.type = "ValueError"
        /\ outcome.message =
              (IF sites = <<>> THEN NoSitesMessage
               ELSE NotFoundHead \o call.site_name \o NotFoundMid
                        \o join(CommaSpace, DictKeys(sites)))

C22_Witness ==
    /\ Undispatched
    /\ sites # <<>>
    /\ call.method = POST
    /\ call.data \notin {PyNone, EmptyDict}
    /\ outcome.kind = "raise"

\* ------------------------------------------------------------------------
\* The tenants specification: several calls of make_wp_request in flight at
\* once, each with its own registry, on configurations of two or three
\* sites, two of which (A and a) share the registry key a.  Here call,
\* sites, outcome and wire hold one value per call in flight.

MaxInFlight == 2

Workers == 1..MaxInFlight

TenantNames == {nA, na, nB}

TenantTriple(n) ==
    { <<SITE_ \o n \o _URL, <<"h", "/">> \o n>>,
      <<SITE_ \o n \o _USER, <<"u">> \o n>>,
      <<SITE_ \o n \o _APP_PASSWORD, <<"p">> \o n>> }

TenantEnvs ==
    { EnvOf({<<OtherKey, <<"/">>>>} \cup UNION {TenantTriple(n) : n \in present}) :
        present \in {S \in SUBSET TenantNames : Cardinality(S) >= 2} }

TenantInit ==
    /\ env \in TenantEnvs
    /\ sites = [w \in Workers |-> <<>>]
    /\ call = [w \in Workers |-> NoCall]
    /\ outcome = [w \in Workers |-> NoOutcome]
    /\ wire = [w \in Workers |-> <<>>]
    /\ replies = <<>>
    /\ backend = <<>>
    /\ prev = NoPrev

\* a tool calls make_wp_request, which calls get_site, which loads the
\* registry
TenantLoad(w) ==
    /\ call[w] = NoCall
    /\ \E order \in Orders(site_names(env)), site_name \in {na, <<"b">>},
          method \in {POST} :
          /\ sites' = [sites EXCEPT ![w] = load_wordpress_sites(env, order)]
          /\ call' = [call EXCEPT ![w] =
                          [op |-> "make_wp_request", site_name |-> site_name,
                           endpoint |-> PostsEndpoint, params |-> PyNone,
                           method |-> method, data |-> PyNone]]
          /\ outcome' = [outcome EXCEPT ![w] = [kind |-> "loaded"]]
    /\ UNCHANGED <<env, wire, replies, backend, prev>>

\* make_wp_request resolves the site, builds the request and sends it
TenantSend(w) ==
    /\ call[w] # NoCall
    /\ outcome[w].kind = "loaded"
    /\ LET c == call[w]
           r == make_wp_request(sites[w], c.site_name, c.endpoint, c.params,
                                c.method, c.data)
       IN  IF r.kind = "send"
           THEN /\ wire' = [wire EXCEPT ![w] = <<r.request>>]
                /\ outcome' = [outcome EXCEPT ![w] = [kind |-> "pending"]]
           ELSE /\ wire' = wire
                /\ outcome' = [outcome EXCEPT ![w] = r]
    /\ UNCHANGED <<env, sites, call, replies, backend, prev>>

\* the backend answers the request of one call
TenantRespond(w) ==
    /\ call[w] # NoCall
    /\ outcome[w].kind = "pending"
    /\ \E status \in {200, 404} :
          outcome' = [outcome EXCEPT ![w] = HandleResponse(status, EmptyDict)]
    /\ UNCHANGED <<env, sites, call, wire, replies, backend, prev>>

\* one call returns to its caller
TenantFinish(w) ==
    /\ call[w] # NoCall
    /\ outcome[w].kind \in {"return", "raise"}
    /\ call' = [call EXCEPT ![w] = NoCall]
    /\ outcome' = [outcome EXCEPT ![w] = NoOutcome]
    /\ sites' = [sites EXCEPT ![w] = <<>>]
    /\ wire' = [wire EXCEPT ![w] = <<>>]
    /\ UNCHANGED <<env, replies, backend, prev>>

TenantNext ==
    \E w \in Workers :
        \/ TenantLoad(w)
        \/ TenantSend(w)
        \/ TenantRespond(w)
        \/ TenantFinish(w)

SpecTenants == TenantInit /\ [][TenantNext]_vars

\* ------------------------------------------------------------------------
\* Claim about the tenants specification

\* the request is made of the three values of the configuration triple of
\* the name n, and of nothing of another name
FromTripleOf(n, request, endpoint) ==
    /\ Complete(env, n)
    /\ request.url =
          AllSlashesStripped(env[SITE_ \o n \o _URL]) \o WpJsonV2Slash \o endpoint
    /\ request.headers["Authorization"] =
          Basic_ \o b64encode(encode_utf8(env[SITE_ \o n \o _USER] \o <<":">>
                                              \o env[SITE_ \o n \o _APP_PASSWORD]))

\* C23: every HTTP request sent for the site name n has its URL, its
\* username and its secret from one and the same configuration triple of n,
\* whatever other calls on other sites are in flight.
C23_TenantIsolation ==
    \A w \in Workers :
        \A i \in DOMAIN wire[w] :
            \E n \in {m \in TenantNames : lower(m) = call[w].site_name} :
                FromTripleOf(n, wire[w][i], call[w].endpoint)

C23_Witness ==
    /\ \A n \in TenantNames : Complete(env, n)
    /\ \E v, w \in Workers :
          /\ wire[v] # <<>> /\ call[v].site_name = na
          /\ wire[w] # <<>> /\ call[w].site_name = <<"b">>
          /\ sites[v] # sites[w]

\* ------------------------------------------------------------------------
\* The HTTP specification: requests to the four routes of server_http.py,
\* with MCP_AUTH_TOKEN unset, empty or set, and with or without the site A

TokenT == <<"t">>

AuthTokenValues == {<<>>, TokenT, Bearer_ \o TokenT}

AuthorizationValues ==
    {<<>>, TokenT, Bearer_ \o TokenT, Bearer_ \o Bearer_ \o TokenT, <<"x">>,
     Bearer_ \o <<"x">>, Bearer_, <<"b", "e", "a", "r", "e", "r", " ">> \o TokenT}

\* the requests: without the header Authorization, or with one of its values
Requests ==
    {[headers |-> <<>>]}
        \cup {[headers |-> [name \in {"Authorization"} |-> v]] :
                 v \in AuthorizationValues}

HttpEnvs ==
    { EnvOf({<<OtherKey, <<"/">>>>} \cup token \cup site) :
        token \in {{}} \cup {{<<MCP_AUTH_TOKEN, v>>} : v \in AuthTokenValues},
        site \in {{}, CompleteTriple(nA, 0)} }

HttpInit ==
    /\ env \in HttpEnvs
    /\ sites = <<>>
    /\ call = NoCall
    /\ outcome = NoOutcome
    /\ wire = <<>>
    /\ replies = <<>>
    /\ backend = <<>>
    /\ prev = NoPrev

\* GET /sse
HandleSse ==
    /\ Idle
    /\ \E request \in Requests :
          /\ call' = [op |-> "handle_sse", request |-> request]
          /\ outcome' = handle_sse(request)
    /\ UNCHANGED <<env, sites, wire, replies, backend, prev>>

\* POST /messages
HandleMessages ==
    /\ Idle
    /\ \E request \in Requests :
          /\ call' = [op |-> "handle_messages", request |-> request]
          /\ outcome' = handle_messages(request)
    /\ UNCHANGED <<env, sites, wire, replies, backend, prev>>

\* GET /health
HandleHealth ==
    /\ Idle
    /\ \E request \in Requests, order \in Orders(site_names(env)) :
          /\ sites' = load_wordpress_sites(env, order)
          /\ call' = [op |-> "handle_health", request |-> request]
          /\ outcome' = handle_health(request, sites')
    /\ UNCHANGED <<env, wire, replies, backend, prev>>

\* GET /
HandleRoot ==
    /\ Idle
    /\ \E request \in Requests :
          /\ call' = [op |-> "handle_root", request |-> request]
          /\ outcome' = handle_root(request)
    /\ UNCHANGED <<env, sites, wire, replies, backend, prev>>

HttpNext ==
    \/ HandleSse
    \/ HandleMessages
    \/ HandleHealth
    \/ HandleRoot
    \/ Finish

SpecHttp == HttpInit /\ [][HttpNext]_vars

\* ------------------------------------------------------------------------
\* Claims about the HTTP specification

\* MCP_AUTH_TOKEN is set to a non-empty value
TokenConfigured == MCP_AUTH_TOKEN \in DOMAIN env /\ env[MCP_AUTH_TOKEN] # <<>>

\* the request carries the token as its Authorization header, bare or after
\* the prefix Bearer and a space
CarriesToken(request) ==
    /\ "Authorization" \in DOMAIN request.headers
    /\ request.headers["Authorization"]
          \in {env[MCP_AUTH_TOKEN], Bearer_ \o env[MCP_AUTH_TOKEN]}

Gated == call.op \in {"handle_sse", "handle_messages"}
Open == call.op \in {"handle_root", "handle_health"}

\* C24: with MCP_AUTH_TOKEN set to a non-empty value, a request to /sse or
\* /messages reaches the SSE transport only if its Authorization header is
\* the token, bare or prefixed with Bearer and a space; every other request
\* to the two routes is answered 401 and does not reach the transport; the
\* routes / and /health answer 200 whatever the request carries.
C24_AuthGate ==
    /\ (Gated /\ TokenConfigured) =>
          /\ outcome.transport # <<>> => CarriesToken(call.request)
          /\ ~CarriesToken(call.request) =>
                /\ outcome.transport = <<>>
                /\ outcome.value = Unauthorized
    /\ Open =>
          /\ outcome.value.status_code = 200
          /\ outcome.transport = <<>>

C24_Witness ==
    /\ Gated
    /\ TokenConfigured
    /\ call.request.headers = [name \in {"Authorization"} |-> Bearer_ \o <<"x">>]
    /\ outcome.value.status_code = 401

\* the request without the header Authorization
NoAuthorization == [headers |-> <<>>]

\* C25: for every value of MCP_AUTH_TOKEN, unset, empty or non-empty, the
\* auth_enabled that / and /health report is true exactly when check_auth
\* rejects a request without an Authorization header.
C25_AuthEnabledAgreesWithGate ==
    Open =>
        (outcome.value.content.v.auth_enabled.v
            <=> ~check_auth(NoAuthorization).authorized)

\* ------------------------------------------------------------------------
\* The dates specification: get_posts_by_date on the one configured site A,
\* for years of one to four digits and for month unset, 0, 1..12 and 13

MaxYear == 2025

Years == {0, 9, 999, 9999} \cup (MaxYear - 1)..MaxYear

Months == {PyNone} \cup {PyInt(m) : m \in 0..13}

GetPostsByDate ==
    \E order \in Orders(site_names(env)), y \in Years, month \in Months :
        LET d == load_wordpress_sites(env, order)
            r == get_posts_by_date(d, na, PyInt(y), month, PyInt(10))
        IN  Invoke([op |-> "get_posts_by_date", site_name |-> na,
                    year |-> PyInt(y), month |-> month, count |-> PyInt(10)],
                   d, r)

DateNext ==
    \/ GetPostsByDate
    \/ Respond
    \/ ConnectionFails
    \/ Finish

SpecDates == ToolInit /\ [][DateNext]_vars

\* ------------------------------------------------------------------------
\* Claim about the dates specification

\* the instant a date-time text names: its year and month when the text is
\* <year>-<two digits>-01T00:00:00, and the year -1 otherwise
Instant(s) ==
    LET n == Len(s) - Len(FirstOfMonth) - 3
    IN  IF /\ n >= 1
           /\ s[n + 1] = "-"
           /\ SubSeq(s, n + 4, Len(s)) = FirstOfMonth
           /\ ParseNat(SubSeq(s, 1, n)) >= 0
           /\ ParseNat(SubSeq(s, n + 2, n + 3)) \in 1..12
        THEN [year |-> ParseNat(SubSeq(s, 1, n)),
              month |-> ParseNat(SubSeq(s, n + 2, n + 3))]
        ELSE [year |-> -1, month |-> 0]

Earlier(a, b) == a.year * 12 + a.month < b.year * 12 + b.month

\* get_posts_by_date was called with month unset or in 1..12, and has sent
\* its request
WindowSent ==
    /\ call.op = "get_posts_by_date"
    /\ call.month \in {PyNone} \cup {PyInt(m) : m \in 1..12}
    /\ wire # <<>>

\* C26: for every year and every month in 1..12, "after" is the first instant
\* of that month and "before" the first instant of the month that follows,
\* which for December is January of the next year; with month unset,
\* "after" is January 1 of the year and "before" January 1 of the next year;
\* in every case after is strictly earlier than before.
C26_HalfOpenWindow ==
    WindowSent =>
        LET y == call.year.v
            after == Instant(wire[1].params.v.after.v)
            before == Instant(wire[1].params.v.before.v)
        IN  /\ call.month # PyNone =>
                  /\ after = [year |-> y, month |-> call.month.v]
                  /\ before = IF call.month.v = 12
                              THEN [year |-> y + 1, month |-> 1]
                              ELSE [year |-> y, month |-> call.month.v + 1]
            /\ call.month = PyNone =>
                  /\ after = [year |-> y, month |-> 1]
                  /\ before = [year |-> y + 1, month |-> 1]
            /\ Earlier(after, before)

C26_Witness ==
    /\ WindowSent
    /\ call.month = PyInt(12)
    /\ call.year = PyInt(9999)
    /\ Instant(wire[1].params.v.before.v) = [year |-> 10000, month |-> 1]

====
